---- MODULE Spec2Model ----
(***************************************************************************)
(* Model of the telemetry aggregator of scripts/mccabe_wcet_report.py:     *)
(* MetricsStore, and the Aggregator operations that apply parsed           *)
(* key-value events to it (trace reconstruction, WCET samples, windowed    *)
(* CPU estimate).                                                          *)
(*                                                                         *)
(* Time is counted in whole units of 0.2 s, so the microsecond-to-second   *)
(* conversion of ts_us is a change of unit; floating-point rounding is     *)
(* not modelled, but the non-finite floats (nan, inf) that float()         *)
(* accepts are, and so is the overflow of values near the largest double.  *)
(***************************************************************************)
EXTENDS Integers, Sequences, FiniteSets, TLC

\* ------------------------------------------------------------------ bounds
MaxTs == 2          \* finite ts_us / host-clock values are 0..MaxTs
MaxCalls == 4       \* Aggregator calls in one run of Spec
MaxTraceCalls == 4  \* Aggregator calls in one run of SpecTrace
MaxWcetCalls == 3   \* Aggregator calls in one run of SpecWcet
SeriesLen == 4      \* appends in one script of SpecSeries
MaxCap == 2         \* TimeSeries capacities are 1..MaxCap
StatsLen == 4       \* samples in one script of SpecStats
CpuLen == 3         \* lines in one script of SpecCpuBlock
ParseLen == 1       \* lines in one script of SpecParse
ElfLen == 4         \* lines in one disassembly of SpecElf
MaxFuncs == 3       \* functions in one call graph of SpecDepth
MaxTimelineCalls == 5   \* Aggregator calls in one run of SpecTimeline
ScriptLen == 3      \* calls in one script of SpecScript
CliLen == 2         \* lines of input in one run of SpecCli
MaxNodes == 3       \* nodes of a graph of SpecLayout
LayoutIter == 6     \* iterations of a layout of SpecLayout
MaxDrawn == 3       \* draws by other code between two layouts of SpecLayout
MaxSwitchCalls == 3 \* Aggregator calls in one run of SpecSwitch
GuiLen == 4         \* bytes the device sends in one run of SpecGui
MaxChunk == 2       \* bytes one read of the port returns at most
MaxLog == 1         \* lines of the log file that SpecGui replays
MaxAttempts == 1    \* failed attempts to open the port
MaxClockCalls == 4  \* Aggregator calls in one run of SpecClock
MaxArrayCalls == 5  \* calls on the series in one run of SpecArrays
MaxMonitorCalls == 2 \* MonitorKV events in one run of SpecMonitor
MaxThreads == 3 \* threads started by handle_start in one run of SpecServer
MaxSamples == 3 \* points generated in one run of SpecServer
MaxNow == 6 \* steps of the clock in one run of SpecRack

\* ------------------------------------------------------- program constants
SegmentsMaxLen == 2000   \* deque(maxlen=2000) of SchedulingState.segments
TimeUnitMs == 200        \* one model time unit, in milliseconds
WindowMinMs == 100       \* updateCpuFromTrace: windowSeconds <= 0.1 returns

Tasks == {"A", "B"}
NoneStr == "None"        \* Python None in an Optional[str] field / missing key

\* ---------------------------------------------------------------- floats
\* A Python float (or None in an Optional[float]) as a record of one shape:
\* a finite value is the exact rational n/d in lowest terms.
RECURSIVE GCD(_, _)
GCD(a, b) == IF b = 0 THEN a ELSE GCD(b, a % b)

Abs(n) == IF n < 0 THEN 0 - n ELSE n

Rat(n, d) ==
    LET sn == IF d < 0 THEN 0 - n ELSE n
        sd == Abs(d)
        g == GCD(Abs(sn), sd)
    IN [k |-> "fin", n |-> (IF sn < 0 THEN 0 - (Abs(sn) \div g) ELSE sn \div g), d |-> sd \div g]

Fin(n) == [k |-> "fin", n |-> n, d |-> 1]
NaN == [k |-> "nan", n |-> 0, d |-> 1]
PInf == [k |-> "inf", n |-> 1, d |-> 1]
NInf == [k |-> "inf", n |-> -1, d |-> 1]
None == [k |-> "none", n |-> 0, d |-> 1]
\* a raw value that float()/int() rejects with ValueError (e.g. "abc")
BadNum == [k |-> "bad", n |-> 0, d |-> 1]

\* A finite double of the order of the largest one (sys.float_info.max, about
\* 1.8e308) is the record "big": n/d is its ratio to the largest double,
\* 0 < |n/d| <= 1. A "fin" value is of ordinary magnitude: no sum or product
\* of "fin" values overflows, a "fin" added to a "big" is absorbed, and a
\* result beyond the largest double is an infinity, as in IEEE arithmetic.
FloatMax == [k |-> "big", n |-> 1, d |-> 1]

Sign(n) == IF n < 0 THEN -1 ELSE IF n > 0 THEN 1 ELSE 0

Inf(sign) == [k |-> "inf", n |-> sign, d |-> 1]

\* the double for (n/d) times the largest double
BigOf(n, d) ==
    LET r == Rat(n, d)
    IN IF r.n = 0 THEN Fin(0)
       ELSE IF Abs(r.n) > r.d THEN Inf(Sign(r.n))
       ELSE [k |-> "big", n |-> r.n, d |-> r.d]

\* math.isfinite
IsFinite(x) == x.k \in {"fin", "big"}

FNeg(x) == IF x.k = "nan" THEN NaN ELSE [x EXCEPT !.n = 0 - x.n]

FAdd(a, b) ==
    IF a.k = "nan" \/ b.k = "nan" THEN NaN
    ELSE IF a.k = "inf" /\ b.k = "inf" THEN (IF a.n = b.n THEN a ELSE NaN)
    ELSE IF a.k = "inf" THEN a
    ELSE IF b.k = "inf" THEN b
    ELSE IF a.k = "fin" /\ b.k = "fin" THEN Rat(a.n * b.d + b.n * a.d, a.d * b.d)
    ELSE IF a.k = "big" /\ b.k = "big" THEN BigOf(a.n * b.d + b.n * a.d, a.d * b.d)
    ELSE IF a.k = "big" THEN a
    ELSE b

FSub(a, b) == FAdd(a, FNeg(b))

FMul(a, b) ==
    IF a.k = "nan" \/ b.k = "nan" THEN NaN
    ELSE IF a.k = "inf" \/ b.k = "inf"
         THEN (IF a.n = 0 \/ b.n = 0 THEN NaN ELSE Inf(Sign(a.n) * Sign(b.n)))
    ELSE IF a.k = "fin" /\ b.k = "fin" THEN Rat(a.n * b.n, a.d * b.d)
    ELSE IF a.k = "big" /\ b.k = "big" THEN Inf(Sign(a.n) * Sign(b.n))
    ELSE BigOf(a.n * b.n, a.d * b.d)

\* a / b for b # 0.0 (Python raises ZeroDivisionError on b = 0.0)
FDiv(a, b) ==
    IF a.k = "nan" \/ b.k = "nan" THEN NaN
    ELSE IF a.k = "inf" /\ b.k = "inf" THEN NaN
    ELSE IF a.k = "inf" THEN Inf(Sign(a.n) * Sign(b.n))
    ELSE IF b.k = "inf" THEN Fin(0)
    ELSE IF a.k = b.k THEN Rat(a.n * b.d, a.d * b.n)
    ELSE IF a.k = "big" THEN BigOf(a.n * b.d, a.d * b.n)
    ELSE Fin(0)

FLt(a, b) ==
    IF a.k = "nan" \/ b.k = "nan" THEN FALSE
    ELSE IF a.k = "inf" /\ b.k = "inf" THEN a.n < b.n
    ELSE IF a.k = "inf" THEN a.n < 0
    ELSE IF b.k = "inf" THEN b.n > 0
    ELSE IF a.k = b.k THEN a.n * b.d < b.n * a.d
    ELSE IF a.k = "big" THEN a.n < 0
    ELSE b.n > 0

FLe(a, b) ==
    IF a.k = "nan" \/ b.k = "nan" THEN FALSE
    ELSE a = b \/ FLt(a, b)

FGt(a, b) == FLt(b, a)

\* Python's max(a, b) / min(a, b): the first argument unless the second wins
PyMax(a, b) == IF FGt(b, a) THEN b ELSE a
PyMin(a, b) == IF FLt(b, a) THEN b ELSE a

\* float(s): ValueError for a non-numeric string, else the float it denotes
FloatRaises(raw) == raw.k = "bad"
\* int(s, 10): ValueError unless s denotes a finite integer
IntRaises(raw) == raw.k # "fin"
\* `not x` for a kv.get() result: the key is missing (None)
Missing(raw) == raw = None
MissingStr(s) == s = NoneStr

\* ----------------------------------------------------------------- store
TraceGlobalState ==
    [currentTask |-> NoneStr, currentStartRelSec |-> None,
     startTargetSec |-> None, startHostSec |-> None,
     lastRelSec |-> None, timeBase |-> NoneStr,
     pendingSwitchOutTask |-> NoneStr, pendingSwitchOutReason |-> None,
     pendingSwitchOutWaitTicks |-> None, pendingSwitchOutRelSec |-> None]

TraceEdgeInfo ==
    [count |-> 0, lastReason |-> None, lastWaitTicks |-> None, lastRelSec |-> None]

EmptyMap == [x \in {} |-> None]

MetricsStore ==
    [trace |-> TraceGlobalState,
     scheduling |-> EmptyMap,
     traceEdges |-> EmptyMap,
     tasks |-> EmptyMap,
     wcet |-> EmptyMap]

\* deque.append on a deque(maxlen=cap)
DequeAppend(q, x, cap) ==
    IF Len(q) + 1 > cap THEN Tail(Append(q, x)) ELSE Append(q, x)

\* defaultdict lookup: the stored value, or the factory's default
Lookup(map, key, dflt) == IF key \in DOMAIN map THEN map[key] ELSE dflt

Put(map, key, val) == [k \in DOMAIN map \cup {key} |-> IF k = key THEN val ELSE map[k]]

\* ---------------------------------------------------------- RunningStats
RunningStats ==
    [count |-> 0, mean |-> Fin(0), m2 |-> Fin(0), minValue |-> None, maxValue |-> None]

\* (mutant) the finiteness check is missing
RunningStatsUpdate_NoFiniteCheck(rs, value) ==
    LET count == rs.count + 1
        delta == FSub(value, rs.mean)
        mean == FAdd(rs.mean, FDiv(delta, Fin(count)))
        delta2 == FSub(value, mean)
    IN [count |-> count,
        mean |-> mean,
        m2 |-> FAdd(rs.m2, FMul(delta, delta2)),
        minValue |-> IF rs.minValue = None \/ FLt(value, rs.minValue)
                     THEN value ELSE rs.minValue,
        maxValue |-> IF rs.maxValue = None \/ FGt(value, rs.maxValue)
                     THEN value ELSE rs.maxValue]

\* RunningStats.update (Welford)
RunningStatsUpdate(rs, value) ==
    IF ~IsFinite(value) THEN rs
    ELSE LET count == rs.count + 1
             delta == FSub(value, rs.mean)
             mean == FAdd(rs.mean, FDiv(delta, Fin(count)))
             delta2 == FSub(value, mean)
         IN [count |-> count,
             mean |-> mean,
             m2 |-> FAdd(rs.m2, FMul(delta, delta2)),
             minValue |-> IF rs.minValue = None \/ FLt(value, rs.minValue)
                          THEN value ELSE rs.minValue,
             maxValue |-> IF rs.maxValue = None \/ FGt(value, rs.maxValue)
                          THEN value ELSE rs.maxValue]

\* RunningStats.variance(): None below two samples
Variance(rs) ==
    IF rs.count < 2 THEN None ELSE FDiv(rs.m2, Fin(rs.count - 1))

\* ------------------------------------------------------------- TimeSeries
\* TimeSeries(maxLen): points are (relTs, value) pairs, oldest first
\* an Optional[np.ndarray]: None, or an array of floats
NoArray == [some |-> FALSE, arr |-> <<>>]
Array(a) == [some |-> TRUE, arr |-> a]

TimeSeries(maxLen) ==
    [maxLen |-> maxLen, points |-> <<>>, startTs |-> None, version |-> 0,
     cacheVersion |-> -1, cacheX |-> NoArray, cacheY |-> NoArray]

RECURSIVE PopLeftWhileOver(_, _)
\* while len(self.points) > self.maxLen: self.points.popleft()
PopLeftWhileOver(points, maxLen) ==
    IF Len(points) > maxLen THEN PopLeftWhileOver(Tail(points), maxLen) ELSE points

\* (mutant) a full series drops the new point instead of the oldest
TimeSeriesAppend_KeepOldest(ts, tsVal, value) ==
    IF ~IsFinite(tsVal) \/ ~IsFinite(value) THEN ts
    ELSE LET start == IF ts.startTs = None THEN tsVal ELSE ts.startTs
         IN [ts EXCEPT !.startTs = start,
                       !.points = IF Len(@) >= ts.maxLen THEN @
                                  ELSE Append(@, <<FSub(tsVal, start), value>>),
                       !.version = @ + 1]

\* TimeSeries.append(ts, value)
TimeSeriesAppend(ts, tsVal, value) ==
    IF ~IsFinite(tsVal) \/ ~IsFinite(value) THEN ts
    ELSE LET start == IF ts.startTs = None THEN tsVal ELSE ts.startTs
         IN [ts EXCEPT !.startTs = start,
                       !.points = PopLeftWhileOver(
                                      Append(@, <<FSub(tsVal, start), value>>), ts.maxLen),
                       !.version = @ + 1]

\* TimeSeries.clear()
TimeSeriesClear(ts) ==
    [ts EXCEPT !.points = <<>>, !.startTs = None, !.version = @ + 1,
               !.cacheVersion = -1, !.cacheX = NoArray, !.cacheY = NoArray]

\* the arrays lines 312-325 build from the points: np.asarray([]) or np.empty
\* filled point by point
Xs(points) == [i \in 1..Len(points) |-> points[i][1]]
Ys(points) == [i \in 1..Len(points) |-> points[i][2]]

\* (mutant) the cache is returned whenever there is one
ToNumpyArrays_AnyCache(ts) ==
    IF ts.cacheX.some /\ ts.cacheY.some
    THEN [series |-> ts, xs |-> ts.cacheX.arr, ys |-> ts.cacheY.arr, cached |-> TRUE]
    ELSE [series |-> [ts EXCEPT !.cacheX = Array(Xs(ts.points)),
                                !.cacheY = Array(Ys(ts.points)),
                                !.cacheVersion = ts.version],
          xs |-> Xs(ts.points), ys |-> Ys(ts.points), cached |-> FALSE]

\* TimeSeries.toNumpyArrays(): the series afterwards, the two arrays
\* returned, and whether they are the cached ones
ToNumpyArrays(ts) ==
    IF ts.cacheVersion = ts.version /\ ts.cacheX.some /\ ts.cacheY.some
    THEN [series |-> ts, xs |-> ts.cacheX.arr, ys |-> ts.cacheY.arr, cached |-> TRUE]
    ELSE [series |-> [ts EXCEPT !.cacheX = Array(Xs(ts.points)),
                                !.cacheY = Array(Ys(ts.points)),
                                !.cacheVersion = ts.version],
          xs |-> Xs(ts.points), ys |-> Ys(ts.points), cached |-> FALSE]

\* TaskMetrics: the CPU statistics and the values of the CPU series (the
\* host-clock abscissa of a series point is not modelled)
CpuSeriesMaxLen == 600
TaskMetrics == [cpuPctStats |-> RunningStats, cpuPctSeries |-> <<>>]

\* `_ = self._store.tasks[task]`: the defaultdict creates the entry
TouchTask(st, task) ==
    [st EXCEPT !.tasks = Put(@, task, Lookup(@, task, TaskMetrics))]

\* ------------------------------------------------------------ applyTraceKv
\* WipeTrace that forgets traceEdges.clear()
WipeTrace_KeepEdges(st) ==
    [st EXCEPT !.trace = TraceGlobalState,
               !.scheduling = EmptyMap]

\* lines 774-786: the host time base is dropped with everything recorded
WipeTrace(st) ==
    [st EXCEPT !.trace = TraceGlobalState,
               !.scheduling = EmptyMap,
               !.traceEdges = EmptyMap]

\* `startTargetSec or 0.0`
OrZero(x) == IF x = None \/ x = Fin(0) THEN Fin(0) ELSE x

AppendSegment(st, task, start, end) ==
    [st EXCEPT !.scheduling =
        Put(@, task, DequeAppend(Lookup(@, task, <<>>), <<start, end>>, SegmentsMaxLen))]

\* (mutant) SwitchIn that completes the edge but leaves the switch-out pending
SwitchIn_KeepPending(st, task, relTs) ==
    LET prev == st.trace.pendingSwitchOutTask
        s1 == IF prev # NoneStr
              THEN LET edge == Lookup(st.traceEdges, <<prev, task>>, TraceEdgeInfo)
                   IN [st EXCEPT
                         !.traceEdges = Put(@, <<prev, task>>,
                             [count |-> edge.count + 1,
                              lastReason |-> st.trace.pendingSwitchOutReason,
                              lastWaitTicks |-> st.trace.pendingSwitchOutWaitTicks,
                              lastRelSec |-> relTs])]
              ELSE st
    IN TouchTask([s1 EXCEPT !.trace.currentTask = task,
                            !.trace.currentStartRelSec = relTs], task)

\* (mutant) SwitchIn that takes the origin as the start of the running task
SwitchIn_StartAtOrigin(st, task, relTs) ==
    LET prev == st.trace.pendingSwitchOutTask
        s1 == IF prev # NoneStr
              THEN LET edge == Lookup(st.traceEdges, <<prev, task>>, TraceEdgeInfo)
                   IN [st EXCEPT
                         !.traceEdges = Put(@, <<prev, task>>,
                             [count |-> edge.count + 1,
                              lastReason |-> st.trace.pendingSwitchOutReason,
                              lastWaitTicks |-> st.trace.pendingSwitchOutWaitTicks,
                              lastRelSec |-> relTs]),
                         !.trace.pendingSwitchOutTask = NoneStr,
                         !.trace.pendingSwitchOutReason = None,
                         !.trace.pendingSwitchOutWaitTicks = None,
                         !.trace.pendingSwitchOutRelSec = None]
              ELSE st
    IN TouchTask([s1 EXCEPT !.trace.currentTask = task,
                            !.trace.currentStartRelSec = Fin(0)], task)

\* lines 819-837
SwitchIn(st, task, relTs) ==
    LET prev == st.trace.pendingSwitchOutTask
        s1 == IF prev # NoneStr
              THEN LET edge == Lookup(st.traceEdges, <<prev, task>>, TraceEdgeInfo)
                   IN [st EXCEPT
                         !.traceEdges = Put(@, <<prev, task>>,
                             [count |-> edge.count + 1,
                              lastReason |-> st.trace.pendingSwitchOutReason,
                              lastWaitTicks |-> st.trace.pendingSwitchOutWaitTicks,
                              lastRelSec |-> relTs]),
                         !.trace.pendingSwitchOutTask = NoneStr,
                         !.trace.pendingSwitchOutReason = None,
                         !.trace.pendingSwitchOutWaitTicks = None,
                         !.trace.pendingSwitchOutRelSec = None]
              ELSE st
    IN TouchTask([s1 EXCEPT !.trace.currentTask = task,
                            !.trace.currentStartRelSec = relTs], task)

\* SwitchOut that closes the segment but parks no pending switch-out
SwitchOut_NoPending(st, task, relTs, reasonCode, waitTicks) ==
    LET start == st.trace.currentStartRelSec
    IN IF st.trace.currentTask # task THEN st
       ELSE IF start = None THEN st
       ELSE IF FLe(relTs, start) THEN st
       ELSE [AppendSegment(st, task, start, relTs) EXCEPT
               !.trace.currentTask = NoneStr,
               !.trace.currentStartRelSec = None]

\* SwitchOut without the check that the event names the running task
SwitchOut_AnyTask(st, task, relTs, reasonCode, waitTicks) ==
    LET start == st.trace.currentStartRelSec
    IN IF start = None THEN st
       ELSE IF FLe(relTs, start) THEN st
       ELSE [AppendSegment(st, task, start, relTs) EXCEPT
               !.trace.pendingSwitchOutTask = task,
               !.trace.pendingSwitchOutReason = reasonCode,
               !.trace.pendingSwitchOutWaitTicks = waitTicks,
               !.trace.pendingSwitchOutRelSec = relTs,
               !.trace.currentTask = NoneStr,
               !.trace.currentStartRelSec = None]

\* (mutant) the running task is kept when the switch-out is recorded
SwitchOut_KeepRunning(st, task, relTs, reasonCode, waitTicks) ==
    LET start == st.trace.currentStartRelSec
    IN IF st.trace.currentTask # task THEN st
       ELSE IF start = None THEN st
       ELSE IF FLe(relTs, start) THEN st
       ELSE [AppendSegment(st, task, start, relTs) EXCEPT
               !.trace.pendingSwitchOutTask = task,
               !.trace.pendingSwitchOutReason = reasonCode,
               !.trace.pendingSwitchOutWaitTicks = waitTicks,
               !.trace.pendingSwitchOutRelSec = relTs]

SwitchOut(st, task, relTs, reasonCode, waitTicks) ==
    LET start == st.trace.currentStartRelSec
    IN IF st.trace.currentTask # task THEN st
       ELSE IF start = None THEN st
       ELSE IF FLe(relTs, start) THEN st
       ELSE [AppendSegment(st, task, start, relTs) EXCEPT
               !.trace.pendingSwitchOutTask = task,
               !.trace.pendingSwitchOutReason = reasonCode,
               !.trace.pendingSwitchOutWaitTicks = waitTicks,
               !.trace.pendingSwitchOutRelSec = relTs,
               !.trace.currentTask = NoneStr,
               !.trace.currentStartRelSec = None]

\* int(kv[key], 10) under try/except: None when the key is absent or not an int
ParseOptInt(raw) == IF Missing(raw) \/ IntRaises(raw) THEN None ELSE raw

\* (mutant) applyTraceKv without the check of lines 813-815
TraceKvApply_NoOriginCheck(st, kv) ==
    IF MissingStr(kv.ev) \/ MissingStr(kv.task) \/ Missing(kv.ts_us) THEN st
    ELSE
    LET s1 == IF st.trace.timeBase = "host" THEN WipeTrace(st) ELSE st
        s2 == IF s1.trace.timeBase = NoneStr
              THEN [s1 EXCEPT !.trace.timeBase = "target"] ELSE s1
    IN IF FloatRaises(kv.ts_us) THEN s2
       ELSE
       LET ts == kv.ts_us
           reasonCode == ParseOptInt(kv.reason)
           waitTicks == ParseOptInt(kv.wait_ticks)
           s3 == IF s2.trace.startTargetSec = None
                 THEN [s2 EXCEPT !.trace.startTargetSec = ts] ELSE s2
           relTs == FSub(ts, OrZero(s3.trace.startTargetSec))
       IN IF FALSE THEN s3
          ELSE
          LET s4 == [s3 EXCEPT !.trace.lastRelSec = relTs]
          IN IF kv.ev = "switch_in" THEN SwitchIn(s4, kv.task, relTs)
             ELSE IF kv.ev = "switch_out"
                  THEN SwitchOut(s4, kv.task, relTs, reasonCode, waitTicks)
             ELSE s4

\* applyTraceKv
TraceKvApply(st, kv) ==
    IF MissingStr(kv.ev) \/ MissingStr(kv.task) \/ Missing(kv.ts_us) THEN st
    ELSE
    LET s1 == IF st.trace.timeBase = "host" THEN WipeTrace(st) ELSE st
        s2 == IF s1.trace.timeBase = NoneStr
              THEN [s1 EXCEPT !.trace.timeBase = "target"] ELSE s1
    IN IF FloatRaises(kv.ts_us) THEN s2
       ELSE
       LET ts == kv.ts_us
           reasonCode == ParseOptInt(kv.reason)
           waitTicks == ParseOptInt(kv.wait_ticks)
           s3 == IF s2.trace.startTargetSec = None
                 THEN [s2 EXCEPT !.trace.startTargetSec = ts] ELSE s2
           relTs == FSub(ts, OrZero(s3.trace.startTargetSec))
       IN IF FLt(relTs, Fin(0)) THEN s3
          ELSE
          LET s4 == [s3 EXCEPT !.trace.lastRelSec = relTs]
          IN IF kv.ev = "switch_in" THEN SwitchIn(s4, kv.task, relTs)
             ELSE IF kv.ev = "switch_out"
                  THEN SwitchOut(s4, kv.task, relTs, reasonCode, waitTicks)
             ELSE s4

\* ---------------------------------------------------- applyTraceTextSwitch
\* (mutant) applyTraceTextSwitch that closes a segment for `from` whatever
\* task was running
TraceTextSwitchApply_AnyRunning(st, kv, nowEpoch) ==
    IF st.trace.timeBase = "target" THEN st
    ELSE
    LET s1 == IF st.trace.timeBase = NoneStr
              THEN [st EXCEPT !.trace.timeBase = "host"] ELSE st
    IN IF MissingStr(kv.from) \/ MissingStr(kv.to) THEN s1
       ELSE
       LET s2 == IF s1.trace.startHostSec = None
                 THEN [s1 EXCEPT !.trace.startHostSec = nowEpoch] ELSE s1
           relTs == FSub(nowEpoch, OrZero(s2.trace.startHostSec))
       IN IF FLt(relTs, Fin(0)) THEN s2
          ELSE
          LET s3 == [s2 EXCEPT !.trace.lastRelSec = relTs]
              start == s3.trace.currentStartRelSec
              s4 == IF start # None /\ FGt(relTs, start)
                    THEN AppendSegment(s3, kv.from, start, relTs) ELSE s3
              edge == Lookup(s4.traceEdges, <<kv.from, kv.to>>, TraceEdgeInfo)
              s5 == [s4 EXCEPT !.traceEdges = Put(@, <<kv.from, kv.to>>,
                         [count |-> edge.count + 1, lastReason |-> None,
                          lastWaitTicks |-> None, lastRelSec |-> relTs])]
          IN [TouchTask(TouchTask(s5, kv.from), kv.to) EXCEPT
                !.trace.currentTask = kv.to,
                !.trace.currentStartRelSec = relTs]

\* applyTraceTextSwitch
TraceTextSwitchApply(st, kv, nowEpoch) ==
    IF st.trace.timeBase = "target" THEN st
    ELSE
    LET s1 == IF st.trace.timeBase = NoneStr
              THEN [st EXCEPT !.trace.timeBase = "host"] ELSE st
    IN IF MissingStr(kv.from) \/ MissingStr(kv.to) THEN s1
       ELSE
       LET s2 == IF s1.trace.startHostSec = None
                 THEN [s1 EXCEPT !.trace.startHostSec = nowEpoch] ELSE s1
           relTs == FSub(nowEpoch, OrZero(s2.trace.startHostSec))
       IN IF FLt(relTs, Fin(0)) THEN s2
          ELSE
          LET s3 == [s2 EXCEPT !.trace.lastRelSec = relTs]
              start == s3.trace.currentStartRelSec
              s4 == IF s3.trace.currentTask = kv.from /\ start # None /\ FGt(relTs, start)
                    THEN AppendSegment(s3, kv.from, start, relTs) ELSE s3
              edge == Lookup(s4.traceEdges, <<kv.from, kv.to>>, TraceEdgeInfo)
              s5 == [s4 EXCEPT !.traceEdges = Put(@, <<kv.from, kv.to>>,
                         [count |-> edge.count + 1, lastReason |-> None,
                          lastWaitTicks |-> None, lastRelSec |-> relTs])]
          IN [TouchTask(TouchTask(s5, kv.from), kv.to) EXCEPT
                !.trace.currentTask = kv.to,
                !.trace.currentStartRelSec = relTs]

\* ------------------------------------------------ windowed CPU estimate
\* the inner loop of updateCpuFromTrace / _cpuWindowFromTrace: segments
\* i, i-1, ..., 1 of one task, newest first, with the early break
RECURSIVE ScanSegments(_, _, _, _, _)
ScanSegments(segs, i, windowStart, nowRel, t) ==
    IF i = 0 THEN t
    ELSE LET start == segs[i][1]
             end == segs[i][2]
         IN IF FLe(end, windowStart) THEN t
            ELSE LET s == PyMax(start, windowStart)
                     e == PyMin(end, nowRel)
                 IN ScanSegments(segs, i - 1, windowStart, nowRel,
                                 IF FGt(e, s) THEN FAdd(t, FSub(e, s)) ELSE t)

TaskRunTime(st, task, windowStart, nowRel) ==
    ScanSegments(st.scheduling[task], Len(st.scheduling[task]), windowStart, nowRel, Fin(0))

\* totals: the tasks whose run time in the window is > 0.0
WindowTotals(st, windowStart, nowRel) ==
    LET listed == {task \in DOMAIN st.scheduling :
                      FGt(TaskRunTime(st, task, windowStart, nowRel), Fin(0))}
    IN [task \in listed |-> TaskRunTime(st, task, windowStart, nowRel)]

RECURSIVE SumTotals(_, _)
SumTotals(totals, names) ==
    IF names = {} THEN Fin(0)
    ELSE LET x == CHOOSE n \in names : TRUE
         IN FAdd(totals[x], SumTotals(totals, names \ {x}))

\* _cpuWindowFromTrace: the rows (task, percentage, run time); the order of
\* the rows (sorted by percentage) is not modelled
CpuWindowFromTrace(st, windowSeconds) ==
    LET nowRel == st.trace.lastRelSec
        windowStart == FSub(nowRel, windowSeconds)
        totals == WindowTotals(st, windowStart, nowRel)
        totalTime == SumTotals(totals, DOMAIN totals)
    IN IF nowRel = None THEN {}
       ELSE IF FLe(totalTime, Fin(0)) THEN {}
       ELSE {[task |-> task,
              pct |-> FDiv(FMul(totals[task], Fin(100)), totalTime),
              t |-> totals[task]] : task \in DOMAIN totals}

\* applyCpuPct
ApplyCpuPct(st, task, pct) ==
    IF ~IsFinite(pct) THEN st
    ELSE LET clamped == IF FLt(pct, Fin(0)) THEN Fin(0)
                        ELSE IF FGt(pct, Fin(100)) THEN Fin(100) ELSE pct
             tm == Lookup(st.tasks, task, TaskMetrics)
         IN [st EXCEPT !.tasks = Put(@, task,
                [cpuPctStats |-> RunningStatsUpdate(tm.cpuPctStats, clamped),
                 cpuPctSeries |-> DequeAppend(tm.cpuPctSeries, clamped, CpuSeriesMaxLen)])]

RECURSIVE ApplyAllCpuPct(_, _, _, _)
ApplyAllCpuPct(st, totals, totalTime, names) ==
    IF names = {} THEN st
    ELSE LET x == CHOOSE n \in names : TRUE
         IN ApplyAllCpuPct(
                ApplyCpuPct(st, x, FDiv(FMul(totals[x], Fin(100)), totalTime)),
                totals, totalTime, names \ {x})

\* windowSeconds <= 0.1, with windowSeconds counted in time units
WindowTooShort(windowSeconds) ==
    FLe(FMul(windowSeconds, Fin(TimeUnitMs)), Fin(WindowMinMs))

\* updateCpuFromTrace
UpdateCpuFromTraceApply(st, nowRelSec, windowSeconds) ==
    IF WindowTooShort(windowSeconds) THEN st
    ELSE LET windowStart == FSub(nowRelSec, windowSeconds)
             totals == WindowTotals(st, windowStart, nowRelSec)
             totalTime == SumTotals(totals, DOMAIN totals)
         IN IF FLe(totalTime, Fin(0)) THEN st
            ELSE ApplyAllCpuPct(st, totals, totalTime, DOMAIN totals)

\* ------------------------------------------------------------- applyWcetKv
\* WcetKey is a @dataclasses.dataclass without frozen=True or unsafe_hash:
\* eq=True makes dataclass set __hash__ to None, so an instance cannot be a
\* dict key and `self._store.wcet[key]` raises TypeError
WcetKeyHashable == FALSE

WcetSamplesMaxLen == 5000
WcetSeriesMaxLen == 1200
WcetMetrics ==
    [durUsStats |-> RunningStats, durUsSeries |-> <<>>, durUsSamples |-> <<>>,
     lastTsUs |-> None]

\* the result of one call: the store after it, and whether it raised
Returned(st) == [store |-> st, raised |-> FALSE]
Raised(st) == [store |-> st, raised |-> TRUE]

\* (mutant) the sign of dur_us is not checked
WcetAccepted_NoSignCheck(kv) ==
    /\ ~(MissingStr(kv.name) \/ MissingStr(kv.task) \/ Missing(kv.dur_us))
    /\ ~FloatRaises(kv.dur_us)
    /\ IsFinite(kv.dur_us)

\* the kv is accepted: a WcetKey is built from it
WcetAccepted(kv) ==
    /\ ~(MissingStr(kv.name) \/ MissingStr(kv.task) \/ Missing(kv.dur_us))
    /\ ~FloatRaises(kv.dur_us)
    /\ IsFinite(kv.dur_us) /\ ~FLt(kv.dur_us, Fin(0))

WcetKeyOf(kv) ==
    <<kv.name, kv.task,
      IF kv.isr = None THEN 0 ELSE IF IntRaises(kv.isr) THEN 0 ELSE kv.isr.n>>

WcetKvApply(st, kv) ==
    IF ~WcetAccepted(kv) THEN Returned(st)
    ELSE IF ~WcetKeyHashable THEN Raised(st)
    ELSE LET key == WcetKeyOf(kv)
             dur == kv.dur_us
             wm == Lookup(st.wcet, key, WcetMetrics)
         IN Returned([st EXCEPT !.wcet = Put(@, key,
                [durUsStats |-> RunningStatsUpdate(wm.durUsStats, dur),
                 durUsSamples |-> DequeAppend(wm.durUsSamples, dur, WcetSamplesMaxLen),
                 durUsSeries |-> DequeAppend(wm.durUsSeries, dur, WcetSeriesMaxLen),
                 lastTsUs |-> IF kv.ts_us # None /\ ~IntRaises(kv.ts_us)
                              THEN kv.ts_us ELSE wm.lastTsUs])])

\* -------------------------------------------------------------------- text
\* A line is a string; positions count from 1 and 0 means "not found"
\* (str.find's -1). ESC stands for the byte 0x1b.
ESC == "~"
UpperChars == "ABCDEFGHIJKLMNOPQRSTUVWXYZ"
LowerChars == "abcdefghijklmnopqrstuvwxyz"
DigitChars == "0123456789"

Char(s, i) == SubSeq(s, i, i)
From(s, i) == SubSeq(s, i, Len(s))
CharsOf(s) == {Char(s, i) : i \in 1..Len(s)}

Upper == CharsOf(UpperChars)
Digit == CharsOf(DigitChars)
\* [A-Za-z0-9_] and \w
Word == Upper \cup CharsOf(LowerChars) \cup Digit \cup {"_"}
\* \s
Space == {" ", "\t"}

\* the position of c in s, 0 when absent
FindChar(s, c) ==
    IF \E i \in 1..Len(s) : Char(s, i) = c
    THEN CHOOSE i \in 1..Len(s) :
            Char(s, i) = c /\ \A j \in 1..(i - 1) : Char(s, j) # c
    ELSE 0

\* s has lit at position i
HasAt(s, i, lit) ==
    /\ i >= 1
    /\ i + Len(lit) - 1 <= Len(s)
    /\ SubSeq(s, i, i + Len(lit) - 1) = lit

\* the last position of the longest run of chars of `class` that starts at
\* i (i - 1 when the run is empty): a greedy X*
RECURSIVE RunEnd(_, _, _)
RunEnd(s, i, class) ==
    IF i <= Len(s) /\ Char(s, i) \in class THEN RunEnd(s, i + 1, class) ELSE i - 1

\* the same for the chars outside `class`
RECURSIVE RunEndNot(_, _, _)
RunEndNot(s, i, class) ==
    IF i <= Len(s) /\ Char(s, i) \notin class THEN RunEndNot(s, i + 1, class) ELSE i - 1

LStrip(s) == From(s, RunEnd(s, 1, Space) + 1)

RECURSIVE RStrip(_)
RStrip(s) ==
    IF Len(s) > 0 /\ Char(s, Len(s)) \in Space THEN RStrip(SubSeq(s, 1, Len(s) - 1)) ELSE s

Strip(s) == RStrip(LStrip(s))

\* str.lower() of one char
LowerChar(c) ==
    IF c \in Upper
    THEN Char(LowerChars, CHOOSE i \in 1..Len(UpperChars) : Char(UpperChars, i) = c)
    ELSE c

RECURSIVE Lower(_)
Lower(s) == IF s = "" THEN "" ELSE LowerChar(Head(s)) \o Lower(Tail(s))

\* _ANSI_ESCAPE_RE at position i: the position of its final "m", 0 if no match
AnsiEndAt(s, i) ==
    LET lb == IF Char(s, i) = ESC THEN i + 1 ELSE i
        e == RunEnd(s, lb + 1, Digit \cup {";"})
    IN IF HasAt(s, lb, "[") /\ HasAt(s, e + 1, "m") THEN e + 1 ELSE 0

\* _ANSI_ESCAPE_RE.sub("", s), from position i on
RECURSIVE StripAnsiFrom(_, _)
StripAnsiFrom(s, i) ==
    IF i > Len(s) THEN ""
    ELSE IF AnsiEndAt(s, i) > 0 THEN StripAnsiFrom(s, AnsiEndAt(s, i) + 1)
    ELSE Char(s, i) \o StripAnsiFrom(s, i + 1)

\* s[lb:] when the first "[" is not at the start, else s
CutToBracket(s) == IF FindChar(s, "[") > 1 THEN From(s, FindChar(s, "[")) ELSE s

\* _LOG_LEVEL_PREFIX_RE.match(s): whether it matches, and group "rest"
LogLevelPrefix(s) ==
    LET u == RunEnd(s, 2, Upper)          \* [A-Z]{3,5}
        w == RunEnd(s, u + 1, Space)      \* \s*
        r == RunEnd(s, w + 2, Space)      \* \s* after the "]"
    IN IF HasAt(s, 1, "[") /\ u - 1 >= 3 /\ u - 1 <= 5 /\ HasAt(s, w + 1, "]")
       THEN [ok |-> TRUE, rest |-> From(s, r + 1)]
       ELSE [ok |-> FALSE, rest |-> ""]

\* the normalisation both parsers start with: colour codes, what precedes
\* the first "[", a log-level tag, what precedes the next "["
Normalize(line) ==
    LET txt0 == Strip(StripAnsiFrom(line, 1))
        txt1 == CutToBracket(txt0)
        lm == LogLevelPrefix(txt1)
        txt2 == IF lm.ok THEN LStrip(lm.rest) ELSE txt1
    IN CutToBracket(txt2)

\* the value of a string of decimal digits
RECURSIVE DigitsValue(_)
DigitsValue(s) ==
    IF s = "" THEN 0
    ELSE 10 * DigitsValue(SubSeq(s, 1, Len(s) - 1))
         + (FindChar(DigitChars, Char(s, Len(s))) - 1)

RECURSIVE Pow10(_)
Pow10(n) == IF n = 0 THEN 1 ELSE 10 * Pow10(n - 1)

\* float(s) for the literal forms [+-]digits[.digits], nan, inf; BadNum
\* (ValueError) otherwise. Exponent and underscore forms are not among the
\* model's inputs.
ParseFloat(s) ==
    LET neg == HasAt(s, 1, "-")
        body == IF HasAt(s, 1, "-") \/ HasAt(s, 1, "+") THEN From(s, 2) ELSE s
        dot == FindChar(body, ".")
        int == IF dot = 0 THEN body ELSE SubSeq(body, 1, dot - 1)
        frac == IF dot = 0 THEN "" ELSE From(body, dot + 1)
        mag == Rat(DigitsValue(int \o frac), Pow10(Len(frac)))
    IN IF Lower(body) = "nan" THEN NaN
       ELSE IF Lower(body) \in {"inf", "infinity"} THEN (IF neg THEN NInf ELSE PInf)
       ELSE IF /\ Len(int \o frac) > 0
               /\ CharsOf(int \o frac) \subseteq Digit
            THEN (IF neg THEN FNeg(mag) ELSE mag)
       ELSE BadNum

\* re.split(r"\s+", s) of a stripped s, from position i on
RECURSIVE SplitFrom(_, _)
SplitFrom(s, i) ==
    LET e == RunEndNot(s, i, Space)
        n == RunEnd(s, e + 1, Space)
    IN IF e >= Len(s) THEN <<From(s, i)>>
       ELSE <<SubSeq(s, i, e)>> \o SplitFrom(s, n + 1)

\* s.rstrip(c) and s.lstrip(c) for one char c
RECURSIVE RStripChar(_, _)
RStripChar(s, c) ==
    IF Len(s) > 0 /\ Char(s, Len(s)) = c THEN RStripChar(SubSeq(s, 1, Len(s) - 1), c) ELSE s

LStripChar(s, c) == From(s, RunEnd(s, 1, {c}) + 1)

\* ----------------------------------------------------- FirmwareLineParser
_KNOWN_PREFIXES == {"MonitorKV", "HwKV", "WcetKV", "TraceKV", "WCET", "TRACE"}

\* a Dict[str, str]; the empty one
EmptyKv == [x \in {} |-> ""]

NoMatch == [ok |-> FALSE, prefix |-> "", body |-> ""]

\* _PREFIX_RE.match(txt): "[" word+ "]" \s* body
PrefixMatch(txt) ==
    LET u == RunEnd(txt, 2, Word)
    IN IF HasAt(txt, 1, "[") /\ u >= 2 /\ HasAt(txt, u + 1, "]")
       THEN [ok |-> TRUE, prefix |-> SubSeq(txt, 2, u),
             body |-> From(txt, RunEnd(txt, u + 2, Space) + 1)]
       ELSE NoMatch

\* _PLAIN_PREFIX_RE.match(txt): word+ \s* body
PlainPrefixMatch(txt) ==
    LET u == RunEnd(txt, 1, Word)
    IN IF u >= 1
       THEN [ok |-> TRUE, prefix |-> SubSeq(txt, 1, u),
             body |-> From(txt, RunEnd(txt, u + 1, Space) + 1)]
       ELSE NoMatch

\* for km in _KV_RE.finditer(body): kv[key] = value, scanning from position i
RECURSIVE KvScan(_, _, _)
KvScan(body, i, kv) ==
    IF i > Len(body) THEN kv
    ELSE LET k == RunEnd(body, i, Word)            \* key: word+
             v == RunEndNot(body, k + 2, Space)    \* value: [^\s]+
         IN IF k >= i /\ HasAt(body, k + 1, "=") /\ v >= k + 2
            THEN KvScan(body, v + 1, Put(kv, SubSeq(body, i, k), SubSeq(body, k + 2, v)))
            ELSE KvScan(body, i + 1, kv)

\* re.search(r'Task:\s*(\w+),\s*WCET:\s*(\d+)\s*us', b) tried at position i
WcetTextAt(b, i) ==
    LET a == RunEnd(b, i + 5, Space)
        t == RunEnd(b, a + 1, Word)
        c == RunEnd(b, t + 2, Space)
        e == RunEnd(b, c + 6, Space)
        g == RunEnd(b, e + 1, Digit)
        h == RunEnd(b, g + 1, Space)
    IN [ok |-> /\ HasAt(b, i, "Task:") /\ t >= a + 1 /\ HasAt(b, t + 1, ",")
               /\ HasAt(b, c + 1, "WCET:") /\ g >= e + 1 /\ HasAt(b, h + 1, "us"),
        task |-> SubSeq(b, a + 1, t),
        dur |-> SubSeq(b, e + 1, g)]

\* the "\s*->\s*(?P<to>.+)$" part tried at position q
ArrowAt(b, q) ==
    LET a == RunEnd(b, q, Space)
    IN [ok |-> HasAt(b, a + 1, "->") /\ a + 3 <= Len(b),
        to |-> From(b, a + 3)]

\* re.search(r"Task\s+switched:\s*(?P<frm>.+?)\s*->\s*(?P<to>.+)$", b): the
\* matches (i, p, q), where the match starts at i and frm is b[p..q-1]
TraceTextMatches(b) ==
    {m \in (1..Len(b)) \X (1..Len(b)) \X (1..Len(b)) :
        LET sp == RunEnd(b, m[1] + 4, Space)
        IN /\ HasAt(b, m[1], "Task") /\ sp >= m[1] + 4
           /\ HasAt(b, sp + 1, "switched:")
           /\ m[2] >= sp + 10 /\ m[2] <= RunEnd(b, sp + 10, Space) + 1
           /\ m[3] > m[2] /\ ArrowAt(b, m[3]).ok}

\* the match the engine returns: leftmost start, greedy \s*, lazy frm
TraceTextMatch(b) ==
    LET ms == TraceTextMatches(b)
    IN CHOOSE m \in ms :
          \A o \in ms :
              \/ m[1] < o[1]
              \/ m[1] = o[1] /\ m[2] > o[2]
              \/ m[1] = o[1] /\ m[2] = o[2] /\ m[3] <= o[3]

\* str.upper() of one char
UpperChar(c) ==
    IF c \in CharsOf(LowerChars)
    THEN Char(UpperChars, CHOOSE i \in 1..Len(LowerChars) : Char(LowerChars, i) = c)
    ELSE c

RECURSIVE ToUpper(_)
ToUpper(s) == IF s = "" THEN "" ELSE UpperChar(Head(s)) \o ToUpper(Tail(s))

\* the legacy free-text forms, tried when the key=value scan found nothing
LegacyText(prefix, body, kv) ==
    LET b == Strip(body)
        wcetAt == {i \in 1..Len(b) : WcetTextAt(b, i).ok}
        w == WcetTextAt(b, CHOOSE i \in wcetAt : \A j \in wcetAt : i <= j)
        kv1 == IF prefix = "WCET" /\ kv = EmptyKv /\ wcetAt # {}
               THEN Put(Put(Put(Put(EmptyKv, "name", "wcet"), "task", w.task),
                            "dur_us", w.dur), "isr", "0")
               ELSE kv
        t == TraceTextMatch(b)
    IN IF ToUpper(prefix) = "TRACE" /\ kv1 = EmptyKv /\ TraceTextMatches(b) # {}
       THEN [prefix |-> "TRACE",
             kv |-> Put(Put(EmptyKv, "from", Strip(SubSeq(b, t[2], t[3] - 1))),
                        "to", Strip(ArrowAt(b, t[3]).to))]
       ELSE [prefix |-> prefix, kv |-> kv1]

\* FirmwareLineParser.parseLine(line): (prefix, kv), prefix NoneStr for None
ParseLine(line) ==
    LET txt == Normalize(line)
        m == PrefixMatch(txt)
        pm == PlainPrefixMatch(txt)
    IN IF m.ok THEN LegacyText(m.prefix, m.body, KvScan(m.body, 1, EmptyKv))
       ELSE IF ~pm.ok THEN [prefix |-> NoneStr, kv |-> EmptyKv]
       ELSE IF pm.prefix \notin _KNOWN_PREFIXES THEN [prefix |-> NoneStr, kv |-> EmptyKv]
       ELSE LegacyText(pm.prefix, pm.body, KvScan(pm.body, 1, EmptyKv))

\* ---------------------------------------------------- CpuStatsBlockParser
\* CpuStatsBlockParser(): outside any block
CpuStatsBlockParser == [inBlock |-> FALSE]

\* re.search of "=+\s*<words>\s*=+", ignoring case
MarkerFound(txt, words) ==
    \E i \in 1..Len(txt) :
        /\ Char(txt, i) = "="
        /\ LET w == RunEnd(txt, i + 1, Space)
               e == w + Len(words)
           IN /\ HasAt(Lower(txt), w + 1, Lower(words))
              /\ HasAt(txt, RunEnd(txt, e + 1, Space) + 1, "=")

\* _CPU_HEADER_RE.search / _CPU_END_RE.search
CpuHeaderFound(txt) == MarkerFound(txt, "Run Time Stats (CPU)")
CpuEndFound(txt) == MarkerFound(txt, "End Run Time Stats")

\* what feed returns: None, or a list of (name, pct) rows
FeedNone == [none |-> TRUE, rows |-> <<>>]
FeedRows(rows) == [none |-> FALSE, rows |-> rows]

\* the row of a line inside the block
CpuRow(txt) ==
    LET parts == SplitFrom(txt, 1)
        last == parts[Len(parts)]
        rawPct == RStripChar(last, "%")
        pct == IF HasAt(rawPct, 1, "<")
               THEN FMul(ParseFloat(LStripChar(rawPct, "<")), Rat(1, 2))
               ELSE ParseFloat(rawPct)
        raises == IF HasAt(rawPct, 1, "<")
                  THEN FloatRaises(ParseFloat(LStripChar(rawPct, "<")))
                  ELSE FloatRaises(ParseFloat(rawPct))
    IN IF HasAt(Lower(txt), 1, "task") THEN FeedNone
       ELSE IF Len(parts) < 2 THEN FeedNone
       ELSE IF ~HasAt(last, Len(last), "%") THEN FeedNone
       ELSE IF raises THEN FeedNone
       ELSE FeedRows(<<<<parts[1], pct>>>>)

\* (mutant) a start marker toggles the block instead of opening it
CpuFeed_StartToggles(p, line) ==
    LET txt == Normalize(line)
    IN IF CpuHeaderFound(txt)
       THEN [parser |-> [p EXCEPT !.inBlock = ~p.inBlock], result |-> FeedNone]
       ELSE IF CpuEndFound(txt) THEN [parser |-> [p EXCEPT !.inBlock = FALSE], result |-> FeedNone]
       ELSE IF ~p.inBlock THEN [parser |-> p, result |-> FeedNone]
       ELSE [parser |-> p, result |-> CpuRow(txt)]

\* CpuStatsBlockParser.feed(line): the parser after it, and what it returns
CpuFeed(p, line) ==
    LET txt == Normalize(line)
    IN IF CpuHeaderFound(txt) THEN [parser |-> [p EXCEPT !.inBlock = TRUE], result |-> FeedNone]
       ELSE IF CpuEndFound(txt) THEN [parser |-> [p EXCEPT !.inBlock = FALSE], result |-> FeedNone]
       ELSE IF ~p.inBlock THEN [parser |-> p, result |-> FeedNone]
       ELSE [parser |-> p, result |-> CpuRow(txt)]

\* ------------------------------------------------------------------ inputs
NoKv ==
    [ev |-> NoneStr, task |-> NoneStr, ts_us |-> None, reason |-> None,
     wait_ticks |-> None, from |-> NoneStr, to |-> NoneStr,
     name |-> NoneStr, dur_us |-> None, isr |-> None]

FiniteTimes == {Fin(n) : n \in 0..MaxTs}
TsRaw == {None, BadNum, NaN, PInf} \cup FiniteTimes

\* (reason, wait_ticks): both absent, both integers, both unparsable
ReasonWaitRaw == {<<None, None>>, <<Fin(2), Fin(5)>>, <<BadNum, BadNum>>}

\* events with ev, task and ts_us; reason and wait_ticks accompany switch_out
CompleteTraceKv ==
    {[NoKv EXCEPT !.ev = e, !.task = t, !.ts_us = u,
                  !.reason = rw[1], !.wait_ticks = rw[2]] :
        e \in {"switch_in", "switch_out", "tick"},
        t \in Tasks,
        u \in TsRaw \ {None},
        rw \in ReasonWaitRaw}

\* events that lack one of the required keys
IncompleteTraceKv ==
    UNION {{[kv EXCEPT !.ev = NoneStr], [kv EXCEPT !.task = NoneStr],
            [kv EXCEPT !.ts_us = None]} :
           kv \in {c \in CompleteTraceKv : c.task = "A" /\ c.ts_us = Fin(1)
                                            /\ c.reason = None /\ c.ev # "tick"}}

\* an ev other than switch_in and switch_out takes the same path for any task
TraceKvInputs ==
    {kv \in CompleteTraceKv :
        /\ kv.ev = "switch_out" \/ kv.reason = None
        /\ kv.ev = "tick" => kv.task = "A"}
    \cup IncompleteTraceKv

\* the events of a stream that follows the protocol: every key present,
\* ts_us a finite integer
TimelineKvInputs ==
    {kv \in CompleteTraceKv :
        /\ kv.ev \in {"switch_in", "switch_out"}
        /\ IsFinite(kv.ts_us)
        /\ kv.reason = None}

CompleteTraceText ==
    {[NoKv EXCEPT !.from = f, !.to = t] : f \in Tasks, t \in Tasks}

IncompleteTraceText ==
    {[NoKv EXCEPT !.from = "A"], [NoKv EXCEPT !.to = "B"], NoKv}

TraceTextInputs == CompleteTraceText \cup IncompleteTraceText

CompleteWcetKv ==
    {[NoKv EXCEPT !.name = "probe", !.task = "A", !.dur_us = d, !.isr = i] :
        d \in {BadNum, NaN, PInf, Fin(-1), Fin(1), Fin(2)},
        i \in {None, BadNum, Fin(1)}}

IncompleteWcetKv ==
    {[NoKv EXCEPT !.task = "A", !.dur_us = Fin(1)],
     [NoKv EXCEPT !.name = "probe", !.dur_us = Fin(1)],
     [NoKv EXCEPT !.name = "probe", !.task = "A"]}

WcetKvInputs == CompleteWcetKv \cup IncompleteWcetKv

Windows == {Fin(0), Fin(1), Fin(2)}

\* -------------------------------------------------------- _analyzeElfComplete
mcuClockHz == 125000000
maxLines == 300000
maxFunctions == 3000

HexChars == "0123456789abcdefABCDEF"
Hex == CharsOf(HexChars)
Letter == Upper \cup CharsOf(LowerChars)

\* int(s, 16)
RECURSIVE HexValue(_)
HexValue(s) ==
    IF s = "" THEN 0
    ELSE LET p == FindChar(HexChars, Char(s, Len(s)))
         IN 16 * HexValue(SubSeq(s, 1, Len(s) - 1)) + (IF p > 16 THEN p - 6 ELSE p) - 1

\* whether s contains lit
Contains(s, lit) == \E i \in 1..Len(s) : HasAt(s, i, lit)

\* _TASK_NAME_PATTERNS: the first pattern, .*[Tt]ask.*, matches every name
\* that one of the other five matches
_isTaskFunction(name) == Contains(name, "Task") \/ Contains(name, "task")

_ARM_INSTRUCTION_CYCLES ==
    [mn \in {"add", "adds", "adc", "adcs", "sub", "subs", "sbc", "sbcs", "rsb",
             "rsbs", "mul", "muls", "and", "ands", "orr", "orrs", "eor", "eors",
             "bic", "bics", "mvn", "mvns", "neg", "negs", "mov", "movs", "movw",
             "movt", "lsl", "lsls", "lsr", "lsrs", "asr", "asrs", "ror", "rors",
             "rrx", "cmp", "cmn", "tst", "teq", "nop"} |-> 1]
    @@ [mn \in {"ldr", "ldrb", "ldrh", "ldrsb", "ldrsh", "str", "strb", "strh",
                "_default"} |-> 2]
    @@ [mn \in {"push", "pop", "b", "bx", "beq", "bne", "bcs", "bcc", "bhs",
                "blo", "bmi", "bpl", "bvs", "bvc", "bhi", "bls", "bge", "blt",
                "bgt", "ble", "cbz", "cbnz"} |-> 3]
    @@ [mn \in {"ldm", "stm", "bl", "blx"} |-> 4]
    @@ [mn \in {"sdiv", "udiv"} |-> 8]

ConditionSuffixes == {"eq", "ne", "cs", "cc", "hs", "lo", "mi", "pl", "vs", "vc",
                      "hi", "ls", "ge", "lt", "gt", "le", "al"}

\* s.split(".", 1)[0]
BeforeDot(s) == IF FindChar(s, ".") = 0 THEN s ELSE SubSeq(s, 1, FindChar(s, ".") - 1)

_getInstructionCycles(mnemonic) ==
    LET base0 == BeforeDot(Lower(mnemonic))
        n == Len(base0)
        base == IF n > 2 /\ SubSeq(base0, n - 1, n) \in ConditionSuffixes
                THEN SubSeq(base0, 1, n - 2) ELSE base0
    IN IF base \in DOMAIN _ARM_INSTRUCTION_CYCLES
       THEN _ARM_INSTRUCTION_CYCLES[base] ELSE _ARM_INSTRUCTION_CYCLES["_default"]

\* funcRe.match(ln.strip()): hex+ \s+ "<" [^>]+ ">:" \s* $
funcRe(ln) ==
    LET t == Strip(ln)
        a == RunEnd(t, 1, Hex)
        w == RunEnd(t, a + 1, Space)
        n == RunEndNot(t, w + 2, {">"})
    IN [ok |-> /\ a >= 1 /\ w >= a + 1 /\ HasAt(t, w + 1, "<") /\ n >= w + 2
               /\ HasAt(t, n + 1, ">:") /\ n + 2 = Len(t),
        addr |-> HexValue(SubSeq(t, 1, a)),
        name |-> SubSeq(t, w + 2, n)]

\* the ends of the whitespace-separated runs of hex digits that start at
\* position i: where the group of hex bytes of insRe may stop
RECURSIVE HexRunEnds(_, _)
HexRunEnds(ln, i) ==
    LET e == RunEnd(ln, i, Hex)
        w == RunEnd(ln, e + 1, Space)
    IN IF e < i THEN {}
       ELSE {e} \cup (IF w >= e + 1 THEN HexRunEnds(ln, w + 1) ELSE {})

\* whether \s+ and a mnemonic follow position e, and that mnemonic
MnemonicAfter(ln, e) ==
    LET w == RunEnd(ln, e + 1, Space)
    IN [ok |-> w >= e + 1 /\ w + 1 <= Len(ln) /\ Char(ln, w + 1) \in Letter,
        mn |-> SubSeq(ln, w + 1, RunEnd(ln, w + 1, Word \cup {"."}))]

\* insRe.match(ln): \s* hex+ ":" \s+ hex+ (\s+ hex+)* \s+ mnemonic. The group
\* of hex bytes is greedy: it stops at the last of its possible ends that a
\* mnemonic can follow
insRe(ln) ==
    LET s0 == RunEnd(ln, 1, Space)
        a == RunEnd(ln, s0 + 1, Hex)
        w == RunEnd(ln, a + 2, Space)
        ends == {e \in HexRunEnds(ln, w + 1) : MnemonicAfter(ln, e).ok}
        last == CHOOSE e \in ends : \A o \in ends : o <= e
    IN IF a >= s0 + 1 /\ HasAt(ln, a + 1, ":") /\ w >= a + 2 /\ ends # {}
       THEN [ok |-> TRUE, mn |-> MnemonicAfter(ln, last).mn]
       ELSE [ok |-> FALSE, mn |-> ""]

\* callRe tried at position i: \b "bl" x? \s+ hex+ \s+ "<" [^>]+ ">"
CallAt(ln, i) ==
    LET x == IF HasAt(ln, i + 2, "x") THEN i + 2 ELSE i + 1
        w == RunEnd(ln, x + 1, Space)
        h == RunEnd(ln, w + 1, Hex)
        v == RunEnd(ln, h + 1, Space)
        n == RunEndNot(ln, v + 2, {">"})
    IN [ok |-> /\ i = 1 \/ Char(ln, i - 1) \notin Word
               /\ HasAt(ln, i, "bl") /\ w >= x + 1 /\ h >= w + 1 /\ v >= h + 1
               /\ HasAt(ln, v + 1, "<") /\ n >= v + 2 /\ HasAt(ln, n + 1, ">"),
        callee |-> SubSeq(ln, v + 2, n)]

\* callRe.search(ln): the leftmost match
callRe(ln) ==
    LET at == {i \in 1..Len(ln) : CallAt(ln, i).ok}
    IN IF at = {} THEN [ok |-> FALSE, callee |-> ""]
       ELSE CallAt(ln, CHOOSE i \in at : \A j \in at : i <= j)

ConditionCodes == {"eq", "ne", "cs", "cc", "hs", "lo", "mi", "pl", "vs", "vc",
                   "hi", "ls", "ge", "lt", "gt", "le"}

\* decisionRe.match(mnemonic)
decisionRe(mnemonic) ==
    \/ \E cc \in ConditionCodes : mnemonic = "b" \o cc
    \/ mnemonic \in {"cbz", "cbnz", "beqz", "bnez", "bgez", "bltz", "bgtz", "blez",
                     "tbb", "tbh", "it", "ite", "itt", "ittt", "itttt"}

FunctionInfo(name, address, isTask) ==
    [name |-> name, address |-> address, instructionCount |-> 0,
     decisionCount |-> 0, mccabe |-> 1, estimatedCycles |-> 0,
     estimatedTimeUs |-> Fin(0), callees |-> <<>>, callers |-> <<>>,
     isTask |-> isTask]

InSeq(x, seq) == \E i \in 1..Len(seq) : seq[i] = x

\* the analysis before its first line: `names` is the insertion order of the
\* functions dict, `next` the position of the scan in lines, `phase` is
\* "scan" in the loop over the lines, "done" after the return and "raised"
\* after an exception left the function
ElfAnalysis ==
    [functions |-> EmptyKv, names |-> <<>>, edges |-> <<>>, edgesSet |-> {},
     currentFunc |-> NoneStr, currentAddr |-> 0, funcsSeen |-> 0,
     next |-> 1, stopped |-> FALSE, phase |-> "scan",
     maxDepth |-> 0, rootFunctions |-> <<>>, taskFunctions |-> <<>>]

\* one pass of `for ln in lines`: a function label
ScanLabel(e, fm) ==
    LET seen == [e EXCEPT !.currentFunc = fm.name, !.currentAddr = fm.addr,
                          !.funcsSeen = e.funcsSeen + 1, !.next = e.next + 1]
    IN IF seen.funcsSeen > maxFunctions THEN [seen EXCEPT !.stopped = TRUE]
       ELSE IF fm.name \in DOMAIN e.functions THEN seen
       ELSE [seen EXCEPT
               !.functions = Put(e.functions, fm.name,
                                 FunctionInfo(fm.name, fm.addr, _isTaskFunction(fm.name))),
               !.names = Append(e.names, fm.name)]

\* ScanInstruction without the test `edgeKey not in edgesSet`
ScanInstruction_NoEdgeSet(e, ln, im) ==
    LET mnemonic == BeforeDot(Lower(im.mn))
        f0 == e.functions[e.currentFunc]
        cm == callRe(ln)
        f1 == [f0 EXCEPT
                 !.instructionCount = @ + 1,
                 !.estimatedCycles = @ + _getInstructionCycles(mnemonic),
                 !.decisionCount = IF decisionRe(mnemonic) THEN @ + 1 ELSE @,
                 !.callees = IF cm.ok /\ ~InSeq(cm.callee, @)
                             THEN Append(@, cm.callee) ELSE @]
        edgeKey == <<e.currentFunc, cm.callee>>
    IN [e EXCEPT !.functions = Put(e.functions, e.currentFunc, f1),
                 !.edges = IF cm.ok THEN Append(@, edgeKey) ELSE @,
                 !.edgesSet = IF cm.ok THEN @ \cup {edgeKey} ELSE @,
                 !.next = e.next + 1]

\* one pass of `for ln in lines`: an instruction line inside currentFunc
ScanInstruction(e, ln, im) ==
    LET mnemonic == BeforeDot(Lower(im.mn))
        f0 == e.functions[e.currentFunc]
        cm == callRe(ln)
        f1 == [f0 EXCEPT
                 !.instructionCount = @ + 1,
                 !.estimatedCycles = @ + _getInstructionCycles(mnemonic),
                 !.decisionCount = IF decisionRe(mnemonic) THEN @ + 1 ELSE @,
                 !.callees = IF cm.ok /\ ~InSeq(cm.callee, @)
                             THEN Append(@, cm.callee) ELSE @]
        edgeKey == <<e.currentFunc, cm.callee>>
        newEdge == cm.ok /\ edgeKey \notin e.edgesSet
    IN [e EXCEPT !.functions = Put(e.functions, e.currentFunc, f1),
                 !.edges = IF newEdge THEN Append(@, edgeKey) ELSE @,
                 !.edgesSet = IF newEdge THEN @ \cup {edgeKey} ELSE @,
                 !.next = e.next + 1]

ScanLine(e, ln) ==
    LET fm == funcRe(ln)
        im == insRe(ln)
    IN IF fm.ok THEN ScanLabel(e, fm)
       ELSE IF e.currentFunc = NoneStr \/ ~im.ok
               \/ e.currentFunc \notin DOMAIN e.functions
       THEN [e EXCEPT !.next = e.next + 1]
       ELSE ScanInstruction(e, ln, im)

\* functions[callee].callers.append(caller) for the edges from position i on
RECURSIVE FillCallers(_, _, _)
FillCallers(functions, edges, i) ==
    IF i > Len(edges) THEN functions
    ELSE LET caller == edges[i][1]
             callee == edges[i][2]
         IN IF callee \in DOMAIN functions /\ ~InSeq(caller, functions[callee].callers)
            THEN FillCallers([functions EXCEPT ![callee].callers = Append(@, caller)],
                             edges, i + 1)
            ELSE FillCallers(functions, edges, i + 1)

\* the nested calls of dfs the interpreter allows: sys.getrecursionlimit() is
\* 1000 where a graph may hold maxFunctions = 3000 functions; the model scales
\* the limit to lie below the size of its graphs in the same way
RecursionLimit == MaxFuncs - 1

\* dfs(name) of _calculateCallgraphDepth: its value and the memo after it;
\* `raised` when the recursion ran out of frames (RecursionError). The calls
\* in progress are those of the names in inStack; a call that returns at once
\* (a name already visited, on the stack or undefined) is not counted
DfsRaised == [depth |-> 0, visited |-> EmptyKv, raised |-> TRUE]

RECURSIVE Dfs(_, _, _, _)
RECURSIVE DfsCallees(_, _, _, _, _, _)
Dfs(functions, name, visited, inStack) ==
    IF name \in DOMAIN visited
    THEN [depth |-> visited[name], visited |-> visited, raised |-> FALSE]
    ELSE IF name \in inStack \/ name \notin DOMAIN functions
    THEN [depth |-> 0, visited |-> visited, raised |-> FALSE]
    ELSE IF Cardinality(inStack) >= RecursionLimit THEN DfsRaised
    ELSE LET r == DfsCallees(functions, functions[name].callees, 1, 0, visited,
                             inStack \cup {name})
         IN IF r.raised THEN DfsRaised
            ELSE [depth |-> r.depth + 1, visited |-> Put(r.visited, name, r.depth + 1),
                  raised |-> FALSE]

\* (mutant) the depth of the last callee is kept instead of the largest
RECURSIVE DfsCallees_LastChild(_, _, _, _, _, _)
DfsCallees_LastChild(functions, callees, i, maxChildDepth, visited, inStack) ==
    IF i > Len(callees)
    THEN [depth |-> maxChildDepth, visited |-> visited, raised |-> FALSE]
    ELSE LET r == Dfs(functions, callees[i], visited, inStack)
         IN IF r.raised THEN DfsRaised
            ELSE DfsCallees_LastChild(functions, callees, i + 1, r.depth,
                                      r.visited, inStack)

DfsCallees(functions, callees, i, maxChildDepth, visited, inStack) ==
    IF i > Len(callees)
    THEN [depth |-> maxChildDepth, visited |-> visited, raised |-> FALSE]
    ELSE LET r == Dfs(functions, callees[i], visited, inStack)
         IN IF r.raised THEN DfsRaised
            ELSE DfsCallees(functions, callees, i + 1,
                            IF r.depth > maxChildDepth THEN r.depth ELSE maxChildDepth,
                            r.visited, inStack)

DepthLimit == 500

\* the loop over list(functions.keys())[:500], from position i on
RECURSIVE DepthFrom(_, _, _, _, _)
DepthFrom(functions, names, i, maxDepth, visited) ==
    IF i > Len(names) \/ i > DepthLimit THEN [depth |-> maxDepth, raised |-> FALSE]
    ELSE LET r == Dfs(functions, names[i], visited, {})
         IN IF r.raised THEN [depth |-> 0, raised |-> TRUE]
            ELSE DepthFrom(functions, names, i + 1,
                           IF r.depth > maxDepth THEN r.depth ELSE maxDepth, r.visited)

\* its return value, or `raised` for the RecursionError that leaves it
_calculateCallgraphDepth(functions, names) == DepthFrom(functions, names, 1, 0, EmptyKv)

\* what follows the loop over the lines, up to the return
PostPass(e) ==
    LET cyclesPerUs == Rat(mcuClockHz, 1000000)
        timed == [n \in DOMAIN e.functions |->
                    [e.functions[n] EXCEPT
                       !.mccabe = 1 + e.functions[n].decisionCount,
                       !.estimatedTimeUs =
                           IF FLt(Fin(0), cyclesPerUs)
                           THEN FDiv(Fin(e.functions[n].estimatedCycles), cyclesPerUs)
                           ELSE @]]
        functions == FillCallers(timed, e.edges, 1)
    IN [e EXCEPT
          !.functions = functions,
          !.rootFunctions = SelectSeq(e.names, LAMBDA n : functions[n].callers = <<>>),
          !.taskFunctions = SelectSeq(e.names, LAMBDA n : functions[n].isTask),
          !.maxDepth = _calculateCallgraphDepth(functions, e.names).depth,
          !.phase = IF _calculateCallgraphDepth(functions, e.names).raised
                    THEN "raised" ELSE "done"]

\* `for ln in lines` from position e.next to its end, then the post-pass
RECURSIVE ScanFrom(_, _)
ScanFrom(e, lines) ==
    IF e.stopped \/ e.next > Len(lines) THEN PostPass(e)
    ELSE ScanFrom(ScanLine(e, lines[e.next]), lines)

\* the None that _analyzeElfComplete returns
NoGraph == [phase |-> "none"]

\* elfPath: not given, a path that does not exist, a directory, a file
ElfPaths == {"unset", "missing", "dir", "file"}

\* subprocess.run: TimeoutExpired, another exception, a non-zero returncode,
\* returncode 0
RunOutcomes == {"timeout", "error", "nonzero", "ok"}

\* (mutant) the returncode of the disassembler is not looked at
_analyzeElfComplete_AnyExit(elfPath, objdump, run, stdout) ==
    IF elfPath # "file" THEN NoGraph
    ELSE IF ~objdump THEN NoGraph
    ELSE IF run \in {"timeout", "error"} THEN NoGraph
    ELSE ScanFrom(ElfAnalysis,
                  SubSeq(stdout, 1, IF Len(stdout) > maxLines THEN maxLines
                                    ELSE Len(stdout)))

\* _analyzeElfComplete: objdump is whether _which found a disassembler, run
\* the outcome of subprocess.run and stdout the lines it printed
_analyzeElfComplete(elfPath, objdump, run, stdout) ==
    IF elfPath # "file" THEN NoGraph
    ELSE IF ~objdump THEN NoGraph
    ELSE IF run \in {"timeout", "error"} THEN NoGraph
    ELSE IF run = "nonzero" THEN NoGraph
    ELSE ScanFrom(ElfAnalysis,
                  SubSeq(stdout, 1, IF Len(stdout) > maxLines THEN maxLines
                                    ELSE Len(stdout)))

\* ------------------------------------------------------------------ _runCli
\* a run of _runCli before its first statement: the arguments (elfPath,
\* serialEnabled, port, logFile), what the run finds outside (objdump, run,
\* stdout; logLen lines of the input are in the log file and the rest arrive
\* on the serial port), the position in the function (pc), the stop flag of
\* GracefulExit, the serial port (NoneStr, "open", "closed"), whether the
\* Markdown report is written, the exception on its way out of the try
\* block, and the two fields of the store that the offline analysis sets
CliRun ==
    [elfPath |-> "unset", objdump |-> FALSE, run |-> "ok", stdout |-> <<>>,
     serialEnabled |-> FALSE, port |-> FALSE, logFile |-> "unset", logLen |-> 0,
     pc |-> "analysis", stop |-> FALSE, ser |-> NoneStr, report |-> FALSE,
     raising |-> FALSE,
     callGraph |-> NoGraph, offlineAnalysisComplete |-> FALSE]

\* ------------------------------------------- _calculateForceDirectedLayout
\* Coordinates, forces and parameters are floats in the code; here they are
\* integers counting hundredths, with divisions truncated toward zero.
Unit == 100

Quot(a, b) == IF a >= 0 THEN a \div b ELSE -((-a) \div b)

RECURSIVE Newton(_, _)
Newton(x, g) ==
    LET h == (g + x \div g) \div 2
    IN IF h >= g THEN g ELSE Newton(x, h)

\* the integer part of the square root
ISqrt(x) == IF x < 2 THEN x ELSE Newton(x, x)

\* math.sqrt(v) of a value in hundredths
FixSqrt(v) == ISqrt(v * Unit)

\* math.sqrt(x * x + y * y), large operands reduced first
RECURSIVE Hypot(_, _)
Hypot(x, y) ==
    IF Abs(x) > 30000 \/ Abs(y) > 30000
    THEN 10 * Hypot(Quot(x, 10), Quot(y, 10))
    ELSE ISqrt(x * x + y * y)

\* a * b / c, large operands reduced first
RECURSIVE MulDiv(_, _, _)
MulDiv(a, b, c) ==
    IF Abs(a) > 100000 /\ c > 10 THEN MulDiv(Quot(a, 10), b, Quot(c, 10))
    ELSE IF Abs(a) > 100000 THEN 10 * MulDiv(Quot(a, 10), b, c)
    ELSE Quot(a * b, c)

\* the global generator of np.random: the seed it was last given and the
\* number of values drawn since
Generator(seed) == [seed |-> seed, drawn |-> 0]

LayoutSeed == 42

\* the seeds the generator is given: the layout's, and another one
Seeds == {LayoutSeed, 7}

\* the first 12 values of random_sample() after seed(42) and after seed(7),
\* in hundredths; the table is read round
Stream(seed, i) ==
    LET table == IF seed = LayoutSeed
                 THEN <<37, 95, 73, 59, 15, 15, 5, 86, 60, 70, 2, 96>>
                 ELSE <<7, 77, 43, 72, 97, 53, 50, 7, 26, 49, 67, 80>>
    IN table[((i - 1) % Len(table)) + 1]

\* np.random.uniform(low, high): the value, and the generator after it
Uniform(rng, low, high) ==
    [value |-> low + Quot((high - low) * Stream(rng.seed, rng.drawn + 1), Unit),
     rng |-> [rng EXCEPT !.drawn = rng.drawn + 1]]

\* int(math.ceil(math.sqrt(n)))
GridSize(n) == CHOOSE g \in 1..n : g * g >= n /\ (g - 1) * (g - 1) < n

spacing == 50 * Unit

\* (mutant) every node starts on one point, without jitter
RECURSIVE InitialPositions_OnePoint(_, _, _, _)
InitialPositions_OnePoint(n, i, pos, rng) ==
    IF i >= n THEN [pos |-> pos, rng |-> rng]
    ELSE InitialPositions_OnePoint(n, i + 1, Append(pos, <<0, 0>>), rng)

\* lines 2041-2046: node i on the grid, moved by two draws
RECURSIVE InitialPositions(_, _, _, _)
InitialPositions(n, i, pos, rng) ==
    IF i >= n THEN [pos |-> pos, rng |-> rng]
    ELSE LET gridSize == GridSize(n)
             row == i \div gridSize
             col == i % gridSize
             ux == Uniform(rng, -5 * Unit, 5 * Unit)
             uy == Uniform(ux.rng, -5 * Unit, 5 * Unit)
             x == Quot((2 * col - gridSize) * spacing, 2) + ux.value
             y == Quot((2 * row - gridSize) * spacing, 2) + uy.value
         IN InitialPositions(n, i + 1, Append(pos, <<x, y>>), uy.rng)

\* displacement[i] += (fx, fy)
AddTo(displacement, i, fx, fy) ==
    [displacement EXCEPT ![i] = <<displacement[i][1] + fx, displacement[i][2] + fy>>]

\* lines 2065-2083: the repulsion of the pairs (i, j) from (i0, j0) on, in
\* the order of the two loops; nodes are counted from 1 here
RECURSIVE Repulsion(_, _, _, _, _, _)
Repulsion(pos, k_opt, i0, j0, displacement, rng) ==
    LET n == Len(pos)
    IN IF i0 >= n THEN [displacement |-> displacement, rng |-> rng]
       ELSE IF j0 > n THEN Repulsion(pos, k_opt, i0 + 1, i0 + 2, displacement, rng)
       ELSE
       LET dx0 == pos[i0][1] - pos[j0][1]
           dy0 == pos[i0][2] - pos[j0][2]
           dist0 == Hypot(dx0, dy0)
           close == dist0 < 1
           ux == Uniform(rng, -10, 10)
           uy == Uniform(ux.rng, -10, 10)
           dist == IF close THEN 1 ELSE dist0
           dx == IF close THEN ux.value ELSE dx0
           dy == IF close THEN uy.value ELSE dy0
           repForce == Quot(Quot(k_opt * k_opt, Unit) * Unit, dist)
           fx == MulDiv(repForce, dx, dist)
           fy == MulDiv(repForce, dy, dist)
       IN Repulsion(pos, k_opt, i0, j0 + 1,
                    AddTo(AddTo(displacement, i0, fx, fy), j0, -fx, -fy),
                    IF close THEN uy.rng ELSE rng)

\* lines 2086-2103: the attraction along the edges from position e on
RECURSIVE Attraction(_, _, _, _, _)
Attraction(pos, k_opt, edges, e, displacement) ==
    IF e > Len(edges) THEN displacement
    ELSE
    LET n == Len(pos)
        src == edges[e][1]
        dst == edges[e][2]
    IN IF src >= n \/ dst >= n
       THEN Attraction(pos, k_opt, edges, e + 1, displacement)
       ELSE
       LET dx == pos[src + 1][1] - pos[dst + 1][1]
           dy == pos[src + 1][2] - pos[dst + 1][2]
           dist == Hypot(dx, dy)
           attForce == Quot(dist * dist, k_opt)
           fx == MulDiv(attForce, dx, dist)
           fy == MulDiv(attForce, dy, dist)
       IN IF dist < 1 THEN Attraction(pos, k_opt, edges, e + 1, displacement)
          ELSE Attraction(pos, k_opt, edges, e + 1,
                          AddTo(AddTo(displacement, src + 1, -fx, -fy),
                                dst + 1, fx, fy))

\* lines 2106-2113: each node moves along its displacement, by at most temp
Displace(pos, displacement, temp) ==
    [i \in 1..Len(pos) |->
        LET dispLen == Hypot(displacement[i][1], displacement[i][2])
            step == IF dispLen < temp THEN dispLen ELSE temp
        IN IF dispLen > 1
           THEN <<pos[i][1] + MulDiv(displacement[i][1], step, dispLen),
                  pos[i][2] + MulDiv(displacement[i][2], step, dispLen)>>
           ELSE pos[i]]

\* lines 2061-2116: the iterations that are left
RECURSIVE Iterate(_, _, _, _, _, _, _)
Iterate(left, pos, edges, k_opt, cooling, temp, rng) ==
    IF left = 0 THEN [pos |-> pos, rng |-> rng]
    ELSE LET zeros == [i \in 1..Len(pos) |-> <<0, 0>>]
             rep == Repulsion(pos, k_opt, 1, 2, zeros, rng)
             displacement == Attraction(pos, k_opt, edges, 1, rep.displacement)
         IN Iterate(left - 1, Displace(pos, displacement, temp), edges, k_opt,
                    cooling, Quot(temp * cooling, Unit), rep.rng)

RECURSIVE SumCoord(_, _, _)
SumCoord(pos, c, i) == IF i = 0 THEN 0 ELSE pos[i][c] + SumCoord(pos, c, i - 1)

RECURSIVE MaxRadius(_, _)
MaxRadius(pos, i) ==
    IF i = 0 THEN 0
    ELSE LET r == Hypot(pos[i][1], pos[i][2])
             m == MaxRadius(pos, i - 1)
         IN IF r > m THEN r ELSE m

\* lines 2118-2129: the layout is centred, then scaled
Centred(pos) ==
    LET n == Len(pos)
        centerX == Quot(SumCoord(pos, 1, n), n)
        centerY == Quot(SumCoord(pos, 2, n), n)
    IN [i \in 1..n |-> <<pos[i][1] - centerX, pos[i][2] - centerY>>]

Rescaled(pos) ==
    LET n == Len(pos)
        maxDist == MaxRadius(pos, n)
        target == IF 50 * Unit > 2 * n * Unit THEN 50 * Unit ELSE 2 * n * Unit
    IN IF maxDist > 10
       THEN [i \in 1..n |-> <<MulDiv(pos[i][1], target, maxDist),
                              MulDiv(pos[i][2], target, maxDist)>>]
       ELSE pos

\* (mutant) the generator is not seeded at the start of the call
_calculateForceDirectedLayout_NoSeed(n, edges, iterations, k, cooling, rng) ==
    IF n = 0 THEN [pos |-> <<>>, rng |-> rng]
    ELSE IF n = 1 THEN [pos |-> <<<<0, 0>>>>, rng |-> rng]
    ELSE LET start == InitialPositions(n, 0, <<>>, rng)
             area == n * 100 * Unit
             k_opt == Quot(k * FixSqrt(Quot(area, n)), Unit)
             temp == Quot(FixSqrt(area), 2)
             run == Iterate(iterations, start.pos, edges, k_opt, cooling, temp,
                            start.rng)
         IN [pos |-> Rescaled(Centred(run.pos)), rng |-> run.rng]

\* _calculateForceDirectedLayout for len(names) = n: the positions returned
\* and the global generator after the call
_calculateForceDirectedLayout(n, edges, iterations, k, cooling, rng) ==
    IF n = 0 THEN [pos |-> <<>>, rng |-> rng]
    ELSE IF n = 1 THEN [pos |-> <<<<0, 0>>>>, rng |-> rng]
    ELSE LET start == InitialPositions(n, 0, <<>>, Generator(LayoutSeed))
             area == n * 100 * Unit
             k_opt == Quot(k * FixSqrt(Quot(area, n)), Unit)
             temp == Quot(FixSqrt(area), 2)
             run == Iterate(iterations, start.pos, edges, k_opt, cooling, temp,
                            start.rng)
         IN [pos |-> Rescaled(Centred(run.pos)), rng |-> run.rng]

\* no call made
NoLayout == [made |-> FALSE]

\* the global generator and the two invocations that are compared
LayoutRun == [rng |-> Generator(LayoutSeed), first |-> NoLayout, second |-> NoLayout]

\* ----------------------------------------------------------------- _runGui
LF == "\n"
CR == "\r"

\* b"\n" in buf
HasLF(buf) == \E i \in 1..Len(buf) : Char(buf, i) = LF

\* buf.partition(b"\n"): what is before the first line feed, and the rest
FirstLF(buf) ==
    CHOOSE i \in 1..Len(buf) :
        Char(buf, i) = LF /\ \A j \in 1..(i - 1) : Char(buf, j) # LF

Partition(buf) ==
    [raw |-> SubSeq(buf, 1, FirstLF(buf) - 1), rest |-> From(buf, FirstLF(buf) + 1)]

\* the line texts of SpecGui: "T" stands for a TraceKV line with a switch_in
\* of task A, "W" for a WcetKV line with a sample that is accepted
GuiTexts == {"T", "W"}

GuiEvent(line) ==
    IF line = "T"
    THEN [op |-> "applyTraceKv",
          kv |-> CHOOSE k \in TimelineKvInputs :
                    k.task = "A" /\ k.ts_us = Fin(1) /\ k.ev = "switch_in"]
    ELSE [op |-> "applyWcetKv",
          kv |-> CHOOSE k \in CompleteWcetKv : k.isr = None /\ k.dur_us = Fin(1)]

\* an invocation of _GuiDispatcher.onLine that has not returned yet
Frame(thread, src, line) == [thread |-> thread, src |-> src, line |-> line]

\* lines 3300-3305: a thread enters onLine
Enter(g, thread, src, line) ==
    [g EXCEPT !.rxTotalLines = @ + 1,
              !.onLine = Append(@, Frame(thread, src, line))]

\* (mutant) a direct connection: the slot runs in the thread that emits
Emit_Direct(g, slot, arg) ==
    IF slot = "onLine" THEN Enter(g, "worker", "serial", arg) ELSE g

\* Signal.emit over a Qt.QueuedConnection (lines 3363-3364): the call is
\* posted to the event queue of the receiver's thread, the main thread
Emit(g, slot, arg) ==
    [g EXCEPT !.queue = Append(@, [slot |-> slot, arg |-> arg])]

\* whether a thread is inside onLine
Inside(g, thread) == \E i \in 1..Len(g.onLine) : g.onLine[i].thread = thread

\* the state of one run of _runGui: the arguments, the device's bytes, the
\* position of the main thread and of the worker thread, the event queue of
\* the main thread and the invocations of onLine
GuiRun ==
    [serial |-> FALSE, port |-> "", rd |-> 0, buf |-> "", attempt |-> 0,
     log |-> <<>>, logPos |-> 0,
     pc |-> "start", worker |-> "unstarted", ser |-> NoneStr, stopEvent |-> FALSE,
     queue |-> <<>>, onLine |-> <<>>, applied |-> <<>>, emitted |-> <<>>,
     rxTotalLines |-> 0]


\* the timestamps seen so far: the last ts_us of a TraceKV event, the last
\* host time of a textual switch, and whether each event's timestamp was at
\* least the one before it on the same clock
ClockInit == [target |-> None, host |-> None, mono |-> TRUE]

Tick(c, which, ts) ==
    [c EXCEPT ![which] = ts,
              !.mono = @ /\ (c[which] = None \/ FLe(c[which], ts))]

\* ---------------------------------------------------------- applyMonitorKv
\* TimeSeries(maxLen=600) of SystemMetrics and TaskMetrics
MonitorSeriesMaxLen == 600

SystemMetrics ==
    [heapFreeStats |-> RunningStats, heapMinStats |-> RunningStats,
     heapFreeSeries |-> TimeSeries(MonitorSeriesMaxLen),
     heapMinSeries |-> TimeSeries(MonitorSeriesMaxLen)]

\* the stack side of TaskMetrics
StackMetrics ==
    [stackTotalStats |-> RunningStats, stackFreeStats |-> RunningStats,
     stackUsedStats |-> RunningStats, stackUsagePctStats |-> RunningStats,
     stackUsedSeries |-> TimeSeries(MonitorSeriesMaxLen)]

\* store.system and the stack side of store.tasks
MonitorState == [system |-> SystemMetrics, tasks |-> EmptyMap]

\* a MonitorKV map; None and NoneStr for the keys it lacks
NoMonitorKv ==
    [heap_free |-> None, heap_min |-> None, task |-> NoneStr, stack_total |-> None,
     stack_free |-> None, stack_used |-> None, stack_usage_pct |-> None]

\* `if key in kv: try: v = float(kv[key]) except (TypeError, ValueError)`:
\* whether there is a value to apply
HasFloat(raw) == ~Missing(raw) /\ ~FloatRaises(raw)

\* (mutant) a value that is not a number is applied as 0.0
UpdateField_ZeroForBad(rs, raw) ==
    IF Missing(raw) THEN rs
    ELSE IF FloatRaises(raw) THEN RunningStatsUpdate(rs, Fin(0))
    ELSE RunningStatsUpdate(rs, raw)

\* stats.update(float(kv[key])) when the key is there and float() returns
UpdateField(rs, raw) == IF HasFloat(raw) THEN RunningStatsUpdate(rs, raw) ELSE rs

\* series.append(now, v) next to it
AppendField(ts, now, raw) == IF HasFloat(raw) THEN TimeSeriesAppend(ts, now, raw) ELSE ts

\* Aggregator.applyMonitorKv(kv, now)
MonitorKvApply(mo, kv, now) ==
    LET system == [heapFreeStats |-> UpdateField(mo.system.heapFreeStats, kv.heap_free),
                   heapFreeSeries |-> AppendField(mo.system.heapFreeSeries, now, kv.heap_free),
                   heapMinStats |-> UpdateField(mo.system.heapMinStats, kv.heap_min),
                   heapMinSeries |-> AppendField(mo.system.heapMinSeries, now, kv.heap_min)]
        tm == Lookup(mo.tasks, kv.task, StackMetrics)
        tm2 == [stackTotalStats |-> UpdateField(tm.stackTotalStats, kv.stack_total),
                stackFreeStats |-> UpdateField(tm.stackFreeStats, kv.stack_free),
                stackUsedStats |-> UpdateField(tm.stackUsedStats, kv.stack_used),
                stackUsedSeries |-> AppendField(tm.stackUsedSeries, now, kv.stack_used),
                stackUsagePctStats |-> UpdateField(tm.stackUsagePctStats,
                                                   kv.stack_usage_pct)]
    IN [system |-> system,
        tasks |-> IF MissingStr(kv.task) THEN mo.tasks ELSE Put(mo.tasks, kv.task, tm2)]

\* ------------------------------------------------- forecasting server, app.py
\* app_state of app.py lines 74-82 (running, total_samples) and the threads
\* started by handle_start, each at its position in background_processing
ServerInit == [running |-> FALSE, workers |-> <<>>, total_samples |-> 0]

\* the threads that have not left the loop of background_processing
Alive(sv) == {w \in 1..Len(sv.workers) : sv.workers[w] # "ended"}

\* the threads that are in an iteration of the loop, between the test of
\* app_state['running'] and the sleep
Generating(sv) == {w \in 1..Len(sv.workers) : sv.workers[w] = "body"}

\* ------------------------------------------- rack simulator, mqtt_simulator.py
\* time.monotonic() in steps of one; the interval to the next scheduled
\* opening (14 to 16 minutes) and the time a door stays open (45 to 150 s)
\* are scaled to a few steps
DoorIntervals == 2..3
DoorDurations == 1..2

\* Optional[float]: door_open_until
NoDeadline == [set |-> FALSE, at |-> 0]
Deadline(t) == [set |-> TRUE, at |-> t]

\* RackState (status drawn by its default_factory or given) after
\* RackSimulator.__init__ at time now
RackSimulator(status, now, interval) ==
    [status |-> IF status \in {0, 1} THEN status ELSE 0,
     next_door_open_at |-> now + interval,
     door_open_until |-> NoDeadline,
     now |-> now]

RackInit == RackSimulator(0, 0, 2)

\* _open_door(current_time) with the duration drawn
OpenDoor(rk, duration) ==
    [rk EXCEPT !.status = 1, !.door_open_until = Deadline(rk.now + duration)]

\* _close_door(current_time) with the interval drawn
CloseDoor(rk, interval) ==
    [rk EXCEPT !.status = 0, !.door_open_until = NoDeadline,
               !.next_door_open_at = rk.now + interval]

\* _process_door_schedule
ProcessDoorSchedule(rk, duration, interval) ==
    IF rk.status = 0 /\ rk.now >= rk.next_door_open_at THEN OpenDoor(rk, duration)
    ELSE IF rk.status = 1 /\ rk.door_open_until.set /\ rk.door_open_until.at # 0
            /\ rk.now >= rk.door_open_until.at
    THEN CloseDoor(rk, interval)
    ELSE rk

\* _handle_door_command(payload): int(payload) raises on "x"
HandleDoorCommand(rk, payload, duration, interval) ==
    IF payload \notin {"0", "1", "2"} THEN rk
    ELSE LET target == IF payload = "1" THEN 1 ELSE 0
         IN IF target = rk.status THEN rk
            ELSE IF target = 1
            THEN [rk EXCEPT !.status = 1, !.door_open_until = Deadline(rk.now + duration),
                            !.next_door_open_at = rk.now + interval]
            ELSE [rk EXCEPT !.status = 0, !.door_open_until = NoDeadline,
                            !.next_door_open_at = rk.now + interval]

VARIABLES
    rack,       \* SpecRack: the door of one rack of the simulator and its clock
    server,     \* SpecServer: app_state['running'] and the background_processing threads of the forecasting server
    monitor,    \* SpecMonitor: the heap and stack statistics of the MetricsStore
    clock,      \* SpecClock: the last timestamps the trace events carried
    gui,        \* SpecGui: one run of _runGui
    layout,     \* SpecLayout: the global generator and two layout calls
    cli,        \* SpecCli: one run of _runCli
    elf,        \* SpecElf: an analysis by _analyzeElfComplete
    store,      \* the MetricsStore
    lastCall,   \* the last Aggregator call: its arguments and its outcome
    nCalls,     \* calls made so far
    script,     \* SpecScript and the unit specifications: the calls to apply, in order
    series,     \* SpecSeries: a TimeSeries
    stats,      \* SpecStats: a RunningStats
    parser      \* SpecCpuBlock: a CpuStatsBlockParser

vars == <<store, lastCall, nCalls, script, series, stats, parser, elf, cli, layout, gui, clock, monitor, server, rack>>

\* the objects only the unit specifications use
units == <<series, stats, parser, elf, cli, layout, gui, clock, monitor, server, rack>>

\* what a call found before it acted (kept for stating what a wipe removed)
Before(st) ==
    [timeBase |-> st.trace.timeBase,
     hasSegments |-> st.scheduling # EmptyMap,
     hasEdges |-> st.traceEdges # EmptyMap]

Call(op, kv, now, window, raised, result, before) ==
    [op |-> op, kv |-> kv, now |-> now, window |-> window,
     raised |-> raised, result |-> result, before |-> before]

InitCall == Call("init", NoKv, None, None, FALSE, {}, Before(MetricsStore))

\* the unit objects as constructed, where a specification does not use them
UnitsInit ==
    /\ series = TimeSeries(1)
    /\ stats = RunningStats
    /\ parser = CpuStatsBlockParser
    /\ rack = RackInit
    /\ server = ServerInit
    /\ monitor = MonitorState
    /\ clock = ClockInit
    /\ gui = GuiRun
    /\ layout = LayoutRun
    /\ cli = CliRun
    /\ elf = ElfAnalysis

\* the store side, where a unit specification does not use it
StoreInit ==
    /\ store = MetricsStore
    /\ lastCall = InitCall
    /\ nCalls = 0

Init ==
    /\ store = MetricsStore
    /\ lastCall = InitCall
    /\ nCalls = 0
    /\ script = <<>>
    /\ UnitsInit

TraceKvStep(inputs, bound) ==
    /\ nCalls < bound
    /\ \E kv \in inputs :
        /\ store' = TraceKvApply(store, kv)
        /\ lastCall' = Call("applyTraceKv", kv, None, None, FALSE, {}, Before(store))
    /\ nCalls' = nCalls + 1
    /\ UNCHANGED <<script, units>>

UpdateCpuStep(bound) ==
    /\ nCalls < bound
    /\ \E nowRelSec \in (FiniteTimes \cup {store.trace.lastRelSec}) \ {None},
          windowSeconds \in Windows :
        /\ store' = UpdateCpuFromTraceApply(store, nowRelSec, windowSeconds)
        /\ lastCall' = Call("updateCpuFromTrace", NoKv, nowRelSec, windowSeconds,
                            FALSE, {}, Before(store))
    /\ nCalls' = nCalls + 1
    /\ UNCHANGED <<script, units>>

CpuWindowStep(bound) ==
    /\ nCalls < bound
    /\ \E windowSeconds \in Windows :
        lastCall' = Call("_cpuWindowFromTrace", NoKv, store.trace.lastRelSec,
                         windowSeconds, FALSE, CpuWindowFromTrace(store, windowSeconds),
                         Before(store))
    /\ store' = store
    /\ nCalls' = nCalls + 1
    /\ UNCHANGED <<script, units>>

ApplyTraceKv == TraceKvStep(TraceKvInputs, MaxCalls)

TraceTextStep(bound) ==
    /\ nCalls < bound
    /\ \E kv \in TraceTextInputs, nowEpoch \in FiniteTimes :
        \* nowEpoch is read only after the from/to check
        /\ kv \in IncompleteTraceText => nowEpoch = Fin(0)
        /\ store' = TraceTextSwitchApply(store, kv, nowEpoch)
        /\ lastCall' = Call("applyTraceTextSwitch", kv, nowEpoch, None, FALSE, {},
                            Before(store))
    /\ nCalls' = nCalls + 1
    /\ UNCHANGED <<script, units>>

ApplyTraceTextSwitch == TraceTextStep(MaxCalls)

WcetKvStep(bound) ==
    /\ nCalls < bound
    /\ \E kv \in WcetKvInputs :
        LET r == WcetKvApply(store, kv)
        IN /\ store' = r.store
           /\ lastCall' = Call("applyWcetKv", kv, None, None, r.raised, {}, Before(store))
    /\ nCalls' = nCalls + 1
    /\ UNCHANGED <<script, units>>

ApplyWcetKv == WcetKvStep(MaxCalls)

UpdateCpuFromTrace == UpdateCpuStep(MaxCalls)

CpuWindow == CpuWindowStep(MaxCalls)

Next ==
    \/ ApplyTraceKv
    \/ ApplyTraceTextSwitch
    \/ ApplyWcetKv
    \/ UpdateCpuFromTrace
    \/ CpuWindow

Spec == Init /\ [][Next]_vars

\* --------------------------------------------------------------- SpecTrace
\* the two operations that write the trace state, over every input; the
\* reason and wait_ticks of a switch_out are absent or integers, they come
\* with a finite ts_us, and a tick has ts_us 0 or one float() rejects
TraceOnlyKvInputs ==
    {kv \in TraceKvInputs :
        /\ kv.reason # BadNum
        /\ kv.reason # None => IsFinite(kv.ts_us)
        /\ kv.ev = "tick" => kv.ts_us \in {Fin(0), BadNum}}

TraceOnlyKv == TraceKvStep(TraceOnlyKvInputs, MaxTraceCalls)

TraceOnlyTextSwitch == TraceTextStep(MaxTraceCalls)

NextTrace ==
    \/ TraceOnlyKv
    \/ TraceOnlyTextSwitch

SpecTrace == Init /\ [][NextTrace]_vars

\* ---------------------------------------------------------------- SpecWcet
\* WCET events of every shape, on a store that trace events have filled
WcetOnlyKv == WcetKvStep(MaxWcetCalls)

WcetTraceKv == TraceKvStep(TimelineKvInputs, MaxWcetCalls)

NextWcet ==
    \/ WcetOnlyKv
    \/ WcetTraceKv

SpecWcet == Init /\ [][NextWcet]_vars

\* ------------------------------------------------------------ SpecTimeline
\* a stream that follows the protocol, and the CPU estimate over it
TimelineTraceKv == TraceKvStep(TimelineKvInputs, MaxTimelineCalls)

TimelineUpdateCpu == UpdateCpuStep(MaxTimelineCalls)

TimelineCpuWindow == CpuWindowStep(MaxTimelineCalls)

NextTimeline ==
    \/ TimelineTraceKv
    \/ TimelineUpdateCpu
    \/ TimelineCpuWindow

SpecTimeline == Init /\ [][NextTimeline]_vars

\* -------------------------------------------------------------- SpecScript
\* a fixed script of Aggregator calls applied in order to a new store; a
\* call that raises ends the script (the exception reaches the caller)
ScriptTraceEvents ==
    {kv \in CompleteTraceKv :
        /\ kv.ev \in {"switch_in", "switch_out"}
        /\ IsFinite(kv.ts_us)
        /\ kv.reason # BadNum
        /\ kv.ev = "switch_in" => kv.reason = None}

ScriptWcetEvents ==
    {kv \in CompleteWcetKv : IsFinite(kv.dur_us) /\ kv.isr # BadNum}

ScriptCalls ==
    {[op |-> "applyTraceKv", kv |-> kv] : kv \in ScriptTraceEvents}
    \cup {[op |-> "applyWcetKv", kv |-> kv] : kv \in ScriptWcetEvents}

InitScript ==
    /\ store = MetricsStore
    /\ lastCall = InitCall
    /\ nCalls = 0
    /\ script \in [1..ScriptLen -> ScriptCalls]
    /\ UnitsInit

ScriptTraceKv ==
    /\ nCalls < Len(script)
    /\ ~lastCall.raised
    /\ script[nCalls + 1].op = "applyTraceKv"
    /\ store' = TraceKvApply(store, script[nCalls + 1].kv)
    /\ lastCall' = Call("applyTraceKv", script[nCalls + 1].kv, None, None, FALSE, {},
                        Before(store))
    /\ nCalls' = nCalls + 1
    /\ UNCHANGED <<script, units>>

ScriptWcetKv ==
    /\ nCalls < Len(script)
    /\ ~lastCall.raised
    /\ script[nCalls + 1].op = "applyWcetKv"
    /\ LET r == WcetKvApply(store, script[nCalls + 1].kv)
       IN /\ store' = r.store
          /\ lastCall' = Call("applyWcetKv", script[nCalls + 1].kv, None, None,
                              r.raised, {}, Before(store))
    /\ nCalls' = nCalls + 1
    /\ UNCHANGED <<script, units>>

NextScript ==
    \/ ScriptTraceKv
    \/ ScriptWcetKv

SpecScript == InitScript /\ [][NextScript]_vars

\* -------------------------------------------------------------- SpecSeries
\* a TimeSeries of small capacity and a script of appends to it
SeriesSamples ==
    {<<t, v>> : t \in {Fin(0), Fin(1), NaN}, v \in {Fin(5), Fin(7), PInf}}

InitSeries ==
    /\ StoreInit
    /\ script \in [1..SeriesLen -> SeriesSamples]
    /\ series \in {TimeSeries(n) : n \in 1..MaxCap}
    /\ stats = RunningStats
    /\ parser = CpuStatsBlockParser
    /\ rack = RackInit
    /\ server = ServerInit
    /\ monitor = MonitorState
    /\ clock = ClockInit
    /\ gui = GuiRun
    /\ layout = LayoutRun
    /\ cli = CliRun
    /\ elf = ElfAnalysis

SeriesAppend ==
    /\ nCalls < Len(script)
    /\ series' = TimeSeriesAppend(series, script[nCalls + 1][1], script[nCalls + 1][2])
    /\ lastCall' = Call("TimeSeries.append", NoKv, script[nCalls + 1][1], None, FALSE,
                        {}, Before(store))
    /\ nCalls' = nCalls + 1
    /\ UNCHANGED <<store, script, stats, parser, elf, cli, layout, gui, clock, monitor, server, rack>>

NextSeries == SeriesAppend

SpecSeries == InitSeries /\ [][NextSeries]_vars

\* --------------------------------------------------------------- SpecStats
\* a RunningStats and a script of samples given to update, one by one
StatsSamples ==
    {Fin(-1), Fin(0), Fin(3), FloatMax, FNeg(FloatMax), NaN, PInf}

InitStats ==
    /\ StoreInit
    /\ script \in [1..StatsLen -> StatsSamples]
    /\ UnitsInit

StatsUpdate ==
    /\ nCalls < Len(script)
    /\ stats' = RunningStatsUpdate(stats, script[nCalls + 1])
    /\ lastCall' = Call("RunningStats.update", NoKv, script[nCalls + 1], None, FALSE,
                        {}, Before(store))
    /\ nCalls' = nCalls + 1
    /\ UNCHANGED <<store, script, series, parser, elf, cli, layout, gui, clock, monitor, server, rack>>

NextStats == StatsUpdate

SpecStats == InitStats /\ [][NextStats]_vars

\* ------------------------------------------------------------ SpecCpuBlock
\* a CpuStatsBlockParser and a script of lines fed to it, one by one
LogTags == {"", "[INFO ] "}

CpuStartLines == {tag \o "==== Run Time Stats (CPU) ====" : tag \in LogTags}

CpuEndLines == {tag \o "==== End Run Time Stats ====" : tag \in LogTags}

CpuRowLine(tag, name, pct) == tag \o name \o " 1234 " \o pct

\* table lines `<name> ... <p>%` and `<name> ... <p%`
CpuRowLines ==
    {CpuRowLine("", name, pct) : name \in {"Idle", "TaskA"}, pct \in {"7%", "<1%"}}
    \cup {CpuRowLine("[INFO ] ", "Idle", "7%")}

\* the table's header, a row whose percentage is no number, a lone word
CpuOtherLines == {"Task Abs %", "Idle 1234 x%", "Idle"}

CpuLines == CpuStartLines \cup CpuEndLines \cup CpuRowLines \cup CpuOtherLines

InitCpuBlock ==
    /\ StoreInit
    /\ script \in [1..CpuLen -> CpuLines]
    /\ UnitsInit

CpuFeedLine ==
    /\ nCalls < Len(script)
    /\ LET r == CpuFeed(parser, script[nCalls + 1])
       IN /\ parser' = r.parser
          /\ lastCall' = Call("CpuStatsBlockParser.feed", NoKv, None, None, FALSE,
                              r.result, Before(store))
    /\ nCalls' = nCalls + 1
    /\ UNCHANGED <<store, script, series, stats, elf, cli, layout, gui, clock, monitor, server, rack>>

NextCpuBlock == CpuFeedLine

SpecCpuBlock == InitCpuBlock /\ [][NextCpuBlock]_vars

\* --------------------------------------------------------------- SpecParse
\* a FirmwareLineParser and a script of log lines given to parseLine
ParseCategories == {"TraceKV", "WCET", "TRACE", "Foo"}

\* bodies of key=value tokens, as their <<key, value>> pairs
KvPairs == {<<<<"ev", "a">>, <<"task", "b">>>>, <<<<"k", "1">>, <<"k", "2">>>>}

\* the legacy free-text sentences
TextBodies == {"Task: X, WCET: 12 us", "Task switched: A -> B"}

RECURSIVE KvText(_)
KvText(pairs) ==
    IF pairs = <<>> THEN ""
    ELSE pairs[1][1] \o "=" \o pairs[1][2]
         \o (IF Len(pairs) > 1 THEN " " ELSE "") \o KvText(Tail(pairs))

\* a line is a log-level tag or none, a category in brackets or bare, a body
ParseInputs ==
    [tag : LogTags, bracket : BOOLEAN, category : ParseCategories,
     pairs : KvPairs, text : {""}]
    \cup [tag : LogTags, bracket : BOOLEAN, category : ParseCategories,
          pairs : {<<>>}, text : TextBodies]

LineOf(in) ==
    in.tag \o (IF in.bracket THEN "[" \o in.category \o "]" ELSE in.category)
    \o " " \o KvText(in.pairs) \o in.text

InitParse ==
    /\ StoreInit
    /\ script \in [1..ParseLen -> ParseInputs]
    /\ UnitsInit

ParseNext ==
    /\ nCalls < Len(script)
    /\ lastCall' = Call("parseLine", NoKv, None, None, FALSE,
                        ParseLine(LineOf(script[nCalls + 1])), Before(store))
    /\ nCalls' = nCalls + 1
    /\ UNCHANGED <<store, script, units>>

NextParse == ParseNext

SpecParse == InitParse /\ [][NextParse]_vars

\* ----------------------------------------------------------------- SpecElf
\* one analysis of a disassembly of ElfLen lines, scanned line by line
ElfLine(kind, addr, name, mn, ops) ==
    [kind |-> kind, addr |-> addr, name |-> name, mn |-> mn, ops |-> ops]

\* function labels, conditional branches, calls to a named target (`name`),
\* another instruction, a line that is neither label nor instruction
ElfInputs ==
    {ElfLine("label", "0000a000", "f", "", ""),
     ElfLine("label", "0000a010", "g", "", ""),
     ElfLine("ins", "a002", "", "beq.n", "a000 <f>"),
     ElfLine("ins", "a004", "", "bcc", "a000 <f>"),
     ElfLine("ins", "a006", "g", "bl", "a010 <g>"),
     ElfLine("ins", "a012", "f", "blx", "a000 <f>"),
     ElfLine("ins", "a00a", "", "adds", "r0, r0, r2"),
     ElfLine("other", "", "", "", "Disassembly of section .text:")}

\* objdump's text of a line
ElfText(in) ==
    CASE in.kind = "label" -> in.addr \o " <" \o in.name \o ">:"
      [] in.kind = "ins" -> "    " \o in.addr \o ":\td0fc      \t" \o in.mn \o "\t" \o in.ops
      [] OTHER -> in.ops

\* lines[:maxLines]
ElfLines == SubSeq(script, 1, IF Len(script) > maxLines THEN maxLines ELSE Len(script))

InitElf ==
    /\ StoreInit
    /\ script \in [1..ElfLen -> ElfInputs]
    /\ UnitsInit

\* one pass of the loop over the lines
ElfScanLine ==
    /\ elf.phase = "scan" /\ ~elf.stopped /\ elf.next <= Len(ElfLines)
    /\ elf' = ScanLine(elf, ElfText(ElfLines[elf.next]))
    /\ UNCHANGED <<store, lastCall, nCalls, script, series, stats, parser, cli, layout, gui, clock, monitor, server, rack>>

\* the loop is over: the post-pass and the return
ElfFinish ==
    /\ elf.phase = "scan" /\ (elf.stopped \/ elf.next > Len(ElfLines))
    /\ elf' = PostPass(elf)
    /\ UNCHANGED <<store, lastCall, nCalls, script, series, stats, parser, cli, layout, gui, clock, monitor, server, rack>>

NextElf == ElfScanLine \/ ElfFinish

SpecElf == InitElf /\ [][NextElf]_vars

\* --------------------------------------------------------------- SpecDepth
\* _calculateCallgraphDepth on a call graph of MaxFuncs functions
FuncNames == <<"a", "b", "c", "d", "e", "f", "g", "h">>

GraphNames == {FuncNames[i] : i \in 1..MaxFuncs}

\* callee lists: none, one function, two functions, a name that is no function
CalleeLists ==
    {<<>>, <<"x">>}
    \cup {<<FuncNames[i]>> : i \in 1..MaxFuncs}
    \cup UNION {{<<FuncNames[i], FuncNames[j]>> : j \in (i + 1)..MaxFuncs} :
                   i \in 1..MaxFuncs}

\* the functions dict in the order of the disassembly, or in the reverse order
GraphOrders == {[i \in 1..MaxFuncs |-> FuncNames[i]],
                [i \in 1..MaxFuncs |-> FuncNames[MaxFuncs + 1 - i]]}

GraphOf(callees) ==
    [n \in GraphNames |-> [FunctionInfo(n, 0, FALSE) EXCEPT !.callees = callees[n]]]

InitDepth ==
    /\ StoreInit
    /\ script = <<>>
    /\ series = TimeSeries(1)
    /\ stats = RunningStats
    /\ parser = CpuStatsBlockParser
    /\ rack = RackInit
    /\ server = ServerInit
    /\ monitor = MonitorState
    /\ clock = ClockInit
    /\ gui = GuiRun
    /\ layout = LayoutRun
    /\ cli = CliRun
    /\ \E callees \in [GraphNames -> CalleeLists], names \in GraphOrders :
          elf = [ElfAnalysis EXCEPT !.functions = GraphOf(callees),
                                    !.names = names, !.phase = "graph"]

\* maxDepth = _calculateCallgraphDepth(functions)
DepthCall ==
    /\ elf.phase = "graph"
    /\ LET r == _calculateCallgraphDepth(elf.functions, elf.names)
       IN elf' = [elf EXCEPT !.maxDepth = r.depth,
                             !.phase = IF r.raised THEN "raised" ELSE "done"]
    /\ UNCHANGED <<store, lastCall, nCalls, script, series, stats, parser, cli, layout, gui, clock, monitor, server, rack>>

NextDepth == DepthCall

SpecDepth == InitDepth /\ [][NextDepth]_vars

\* ------------------------------------------------------------------ SpecCli
\* one run of _runCli: the offline analysis, the replay of the log file, the
\* serial loop and the finally block, with a SIGINT or SIGTERM at any moment
\* after the handlers are installed
ElfOutputs ==
    {<<>>,
     <<ElfText(ElfLine("label", "0000a000", "f", "", "")),
       ElfText(ElfLine("ins", "a006", "g", "bl", "a010 <g>")),
       ElfText(ElfLine("label", "0000a010", "g", "", ""))>>}

\* the events the lines of the input carry: a switch_in, a switch_out, a
\* WCET sample that is accepted and one that is rejected
CliCalls ==
    {[op |-> "applyTraceKv", kv |-> kv] :
        kv \in {k \in TimelineKvInputs : k.task = "A" /\ k.ts_us = Fin(1)}}
    \cup {[op |-> "applyWcetKv", kv |-> kv] :
        kv \in {k \in CompleteWcetKv : k.isr = None /\ k.dur_us \in {Fin(1), NaN}}}

\* windowSeconds=5.0 of the call in feedLine, in time units
FeedWindow == Fin(5000 \div TimeUnitMs)

\* feedLine on a line that carries the event c
feedLine(st, c) ==
    IF c.op = "applyTraceKv"
    THEN LET s1 == TraceKvApply(st, c.kv)
         IN Returned(IF s1.trace.lastRelSec # None
                     THEN UpdateCpuFromTraceApply(s1, s1.trace.lastRelSec, FeedWindow)
                     ELSE s1)
    ELSE WcetKvApply(st, c.kv)

InitCli ==
    /\ StoreInit
    /\ script \in [1..CliLen -> CliCalls]
    /\ series = TimeSeries(1)
    /\ stats = RunningStats
    /\ parser = CpuStatsBlockParser
    /\ rack = RackInit
    /\ server = ServerInit
    /\ monitor = MonitorState
    /\ clock = ClockInit
    /\ gui = GuiRun
    /\ layout = LayoutRun
    /\ elf = ElfAnalysis
    /\ \E elfPath \in ElfPaths, objdump \in BOOLEAN, run \in RunOutcomes,
          stdout \in ElfOutputs, serialEnabled \in BOOLEAN, port \in BOOLEAN,
          logFile \in {"unset", "missing", "file"}, logLen \in 0..CliLen :
          \* a port or lines on it only with serial input, lines in a log
          \* file only with a log file
          /\ port => serialEnabled
          /\ logLen > 0 => logFile = "file"
          /\ logLen < CliLen => port
          /\ cli = [CliRun EXCEPT !.elfPath = elfPath, !.objdump = objdump,
                                  !.run = run, !.stdout = stdout,
                                  !.serialEnabled = serialEnabled, !.port = port,
                                  !.logFile = logFile, !.logLen = logLen]

\* lines 3417-3429: the offline analysis of the binary
CliAnalysis ==
    /\ cli.pc = "analysis"
    /\ LET callGraph == _analyzeElfComplete(cli.elfPath, cli.objdump, cli.run,
                                            cli.stdout)
       IN cli' = IF cli.elfPath # "file" THEN [cli EXCEPT !.pc = "mode"]
                 ELSE IF callGraph.phase = "raised" THEN [cli EXCEPT !.pc = "raised"]
                 ELSE IF callGraph # NoGraph
                 THEN [cli EXCEPT !.callGraph = callGraph,
                                  !.offlineAnalysisComplete = TRUE,
                                  !.pc = "mode"]
                 ELSE [cli EXCEPT !.pc = "mode"]
    /\ UNCHANGED <<store, lastCall, nCalls, script, series, stats, parser, elf, layout, gui, clock, monitor, server, rack>>

\* lines 3431-3443: without serial input and log file the report is written
\* and the run returns; otherwise the signal handlers are installed
CliMode ==
    /\ cli.pc = "mode"
    /\ cli' = IF ~cli.serialEnabled /\ cli.logFile = "unset"
              THEN [cli EXCEPT !.report = TRUE, !.pc = "returned"]
              ELSE [cli EXCEPT !.pc = "replay"]
    /\ UNCHANGED <<store, lastCall, nCalls, script, series, stats, parser, elf, layout, gui, clock, monitor, server, rack>>

\* lines 3478-3482: one line of the log file, or the end of the file; an
\* exception of feedLine leaves _runCli here
CliReplay ==
    /\ cli.pc = "replay"
    /\ IF cli.logFile = "file" /\ nCalls < cli.logLen
       THEN LET r == feedLine(store, script[nCalls + 1])
            IN /\ store' = r.store
               /\ nCalls' = nCalls + 1
               /\ cli' = IF r.raised THEN [cli EXCEPT !.pc = "raised"] ELSE cli
       ELSE /\ cli' = [cli EXCEPT !.pc = "open"]
            /\ UNCHANGED <<store, nCalls>>
    /\ UNCHANGED <<lastCall, script, series, stats, parser, elf, layout, gui, clock, monitor, server, rack>>

\* lines 3484-3496: one pass of the loop that opens the port (the attempt
\* succeeds or fails), or its end
CliOpen ==
    /\ cli.pc = "open"
    /\ IF cli.serialEnabled /\ cli.port /\ ~cli.stop /\ cli.ser = NoneStr
       THEN \E opened \in BOOLEAN :
               cli' = IF opened THEN [cli EXCEPT !.ser = "open"] ELSE cli
       ELSE cli' = [cli EXCEPT !.pc = "loop"]
    /\ UNCHANGED <<store, lastCall, nCalls, script, series, stats, parser, elf, layout, gui, clock, monitor, server, rack>>

\* lines 3498-3509: one pass of the read loop (a sleep without a port, a
\* readline that times out, a line that is fed), or its end
CliLoop ==
    /\ cli.pc = "loop"
    /\ IF cli.stop
       THEN /\ cli' = [cli EXCEPT !.pc = "finally"]
            /\ UNCHANGED <<store, nCalls>>
       ELSE IF cli.ser = NoneStr
       THEN UNCHANGED <<cli, store, nCalls>>
       ELSE \/ UNCHANGED <<cli, store, nCalls>>
            \/ /\ nCalls < Len(script)
               /\ LET r == feedLine(store, script[nCalls + 1])
                  IN /\ store' = r.store
                     /\ nCalls' = nCalls + 1
                     /\ cli' = IF r.raised
                               THEN [cli EXCEPT !.raising = TRUE, !.pc = "finally"]
                               ELSE cli
    /\ UNCHANGED <<lastCall, script, series, stats, parser, elf, layout, gui, clock, monitor, server, rack>>

\* lines 3510-3528: the finally block and the return
CliFinally ==
    /\ cli.pc = "finally"
    /\ cli' = [cli EXCEPT !.ser = IF cli.ser = "open" THEN "closed" ELSE cli.ser,
                          !.report = TRUE,
                          !.pc = IF cli.raising THEN "raised" ELSE "returned"]
    /\ UNCHANGED <<store, lastCall, nCalls, script, series, stats, parser, elf, layout, gui, clock, monitor, server, rack>>

\* GracefulExit.install.handler: SIGINT or SIGTERM once the handlers are
\* installed and before the run is over
CliSignal ==
    /\ cli.pc \in {"replay", "open", "loop", "finally"}
    /\ ~cli.stop
    /\ cli' = [cli EXCEPT !.stop = TRUE]
    /\ UNCHANGED <<store, lastCall, nCalls, script, series, stats, parser, elf, layout, gui, clock, monitor, server, rack>>

\* the statements of the main thread
CliProgram ==
    \/ CliAnalysis
    \/ CliMode
    \/ CliReplay
    \/ CliOpen
    \/ CliLoop
    \/ CliFinally

NextCli ==
    \/ CliAnalysis
    \/ CliMode
    \/ CliReplay
    \/ CliOpen
    \/ CliLoop
    \/ CliFinally
    \/ CliSignal

SpecCli == InitCli /\ [][NextCli]_vars

\* the runs without a binary to analyse: the analysis is over before the
\* signal handlers are installed and writes nothing that the loops read
InitCliNoElf ==
    /\ InitCli
    /\ cli.elfPath = "unset" /\ ~cli.objdump /\ cli.run = "ok" /\ cli.stdout = <<>>

\* the main thread always reaches its next statement: time.sleep returns and
\* readline returns after its timeout of 0.2 s
SpecCliLive == InitCliNoElf /\ [][NextCli]_vars /\ WF_vars(CliProgram)

\* --------------------------------------------------------------- SpecLayout
\* two invocations of _calculateForceDirectedLayout with the same arguments;
\* between them other code draws from the global generator, seeds it, or
\* computes other layouts
EdgeLists == {<<>>, <<<<0, 1>>>>, <<<<1, 0>>>>, <<<<0, 1>>, <<1, 2>>>>}

\* (k, cooling) of the default arguments and of the two call sites
LayoutParams == {<<100, 95>>, <<120, 92>>, <<200, 95>>}

LayoutInputs ==
    {[n |-> n, edges |-> edges, iterations |-> iterations, k |-> kc[1],
      cooling |-> kc[2]] :
        n \in 0..MaxNodes, edges \in EdgeLists, iterations \in 0..LayoutIter,
        kc \in LayoutParams}

\* the layouts computed in between
OtherInputs ==
    {in \in LayoutInputs : /\ in.n \in {1, MaxNodes}
                           /\ in.iterations = 1
                           /\ in.edges = <<<<0, 1>>>>
                           /\ in.k = 100}

LayoutOf(in, rng) ==
    _calculateForceDirectedLayout(in.n, in.edges, in.iterations, in.k, in.cooling, rng)

\* an invocation: its arguments, the positions it returned, and whether the
\* generator was used since the invocation before it
Invocation(in, pos, disturbed) ==
    [made |-> TRUE, input |-> in, pos |-> pos, disturbed |-> disturbed]

InitLayout ==
    /\ StoreInit
    /\ script = <<>>
    /\ series = TimeSeries(1)
    /\ stats = RunningStats
    /\ parser = CpuStatsBlockParser
    /\ rack = RackInit
    /\ server = ServerInit
    /\ monitor = MonitorState
    /\ clock = ClockInit
    /\ gui = GuiRun
    /\ elf = ElfAnalysis
    /\ cli = CliRun
    /\ layout \in {[LayoutRun EXCEPT !.rng = Generator(seed)] : seed \in Seeds}

LayoutFirst ==
    /\ ~layout.first.made
    /\ \E in \in LayoutInputs :
          LET r == LayoutOf(in, layout.rng)
          IN layout' = [layout EXCEPT !.first = Invocation(in, r.pos, FALSE),
                                      !.rng = r.rng]
    /\ UNCHANGED <<store, lastCall, nCalls, script, series, stats, parser, elf, cli, gui, clock, monitor, server, rack>>

\* other code calls np.random.uniform or the like
LayoutDraw ==
    /\ ~layout.second.made
    /\ layout.rng.drawn < MaxDrawn
    /\ layout' = [layout EXCEPT !.rng.drawn = @ + 1,
                                !.first = IF @.made THEN [@ EXCEPT !.disturbed = TRUE]
                                          ELSE @]
    /\ UNCHANGED <<store, lastCall, nCalls, script, series, stats, parser, elf, cli, gui, clock, monitor, server, rack>>

\* other code calls np.random.seed
LayoutReseed ==
    /\ ~layout.second.made
    /\ \E seed \in Seeds :
          layout' = [layout EXCEPT !.rng = Generator(seed),
                                   !.first = IF @.made
                                             THEN [@ EXCEPT !.disturbed = TRUE]
                                             ELSE @]
    /\ UNCHANGED <<store, lastCall, nCalls, script, series, stats, parser, elf, cli, gui, clock, monitor, server, rack>>

\* another layout is computed in between
LayoutOther ==
    /\ layout.first.made /\ ~layout.second.made
    /\ \E in \in OtherInputs :
          layout' = [layout EXCEPT !.rng = LayoutOf(in, layout.rng).rng,
                                   !.first.disturbed = TRUE]
    /\ UNCHANGED <<store, lastCall, nCalls, script, series, stats, parser, elf, cli, gui, clock, monitor, server, rack>>

\* the second invocation, with the arguments of the first
LayoutSecond ==
    /\ layout.first.made /\ ~layout.second.made
    /\ LET r == LayoutOf(layout.first.input, layout.rng)
       IN layout' = [layout EXCEPT
                        !.second = Invocation(layout.first.input, r.pos,
                                              layout.first.disturbed),
                        !.rng = r.rng]
    /\ UNCHANGED <<store, lastCall, nCalls, script, series, stats, parser, elf, cli, gui, clock, monitor, server, rack>>

NextLayout ==
    \/ LayoutFirst
    \/ LayoutDraw
    \/ LayoutReseed
    \/ LayoutOther
    \/ LayoutSecond

SpecLayout == InitLayout /\ [][NextLayout]_vars

\* -------------------------------------------------------------- SpecSwitch
\* short runs of the two operations that write the trace state, over every
\* input
SwitchTraceKv == TraceKvStep(TraceKvInputs, MaxSwitchCalls)

SwitchTraceText == TraceTextStep(MaxSwitchCalls)

NextSwitch ==
    \/ SwitchTraceKv
    \/ SwitchTraceText

SpecSwitch == Init /\ [][NextSwitch]_vars

\* ----------------------------------------------------------------- SpecGui
\* one run of _runGui with serial input, a log file, or both: the main
\* thread (the start of the worker thread, the replay of the log file, the
\* event loop, the end of the application) and the worker thread
\* (SerialWorker.run), interleaved in every way

\* lines 3326-3350 of onLine, the dispatch that feedLine has too: the event
\* of the line is applied; any other text is counted and changes nothing else
onLine(st, line) ==
    IF line \in GuiTexts THEN feedLine(st, GuiEvent(line)) ELSE Returned(st)

RECURSIVE Streams(_)
Streams(n) ==
    IF n = 0 THEN {""}
    ELSE LET shorter == Streams(n - 1)
         IN shorter \cup {s \o c : s \in shorter, c \in GuiTexts \cup {CR, LF}}

\* a line text is followed by the end of its line, "\n" or "\r\n"
WellFormed(s) ==
    \A i \in 1..(Len(s) - 1) :
        /\ Char(s, i) \in GuiTexts => Char(s, i + 1) \in {CR, LF}
        /\ Char(s, i) = CR => Char(s, i + 1) = LF

InitGui ==
    /\ StoreInit
    /\ script = <<>>
    /\ series = TimeSeries(1)
    /\ stats = RunningStats
    /\ parser = CpuStatsBlockParser
    /\ rack = RackInit
    /\ server = ServerInit
    /\ monitor = MonitorState
    /\ clock = ClockInit
    /\ elf = ElfAnalysis
    /\ cli = CliRun
    /\ layout = LayoutRun
    /\ \E serial \in BOOLEAN, port \in {s \in Streams(GuiLen) : WellFormed(s)},
          log \in UNION {[1..n -> GuiTexts] : n \in 0..MaxLog} :
          \* bytes arrive only on a port that is read
          /\ ~serial => port = ""
          /\ gui = [GuiRun EXCEPT !.serial = serial, !.port = port, !.log = log]

\* lines 3358-3365: with serial input the worker thread is started
GuiStart ==
    /\ gui.pc = "start"
    /\ gui' = [gui EXCEPT !.pc = "replay",
                          !.worker = IF gui.serial THEN "open" ELSE @]
    /\ UNCHANGED <<store, lastCall, nCalls, script, series, stats, parser, elf, cli, layout, clock, monitor, server, rack>>

\* lines 3367-3372: the main thread calls onLine on the next line of the log
\* file, or goes on to the event loop at its end
GuiReplay ==
    /\ gui.pc = "replay"
    /\ ~Inside(gui, "main")
    /\ gui' = IF gui.logPos < Len(gui.log)
              THEN Enter([gui EXCEPT !.logPos = @ + 1], "main", "log",
                         gui.log[gui.logPos + 1])
              ELSE [gui EXCEPT !.pc = "exec"]
    /\ UNCHANGED <<store, lastCall, nCalls, script, series, stats, parser, elf, cli, layout, clock, monitor, server, rack>>

\* lines 3305-3350: the thread that is inside onLine runs it to its end; an
\* exception ends the replay (lines 3373-3374), and is reported without
\* ending the event loop when the slot was called from it
GuiOnLine ==
    /\ \E i \in 1..Len(gui.onLine) :
          LET f == gui.onLine[i]
              r == onLine(store, f.line)
              g1 == [gui EXCEPT !.onLine = SubSeq(@, 1, i - 1) \o SubSeq(@, i + 1, Len(@)),
                                !.applied = Append(@, f)]
          IN /\ store' = r.store
             /\ gui' = IF f.src = "log" /\ r.raised THEN [g1 EXCEPT !.pc = "exec"] ELSE g1
    /\ UNCHANGED <<lastCall, nCalls, script, series, stats, parser, elf, cli, layout, clock, monitor, server, rack>>

\* app.exec(), line 3401: the event loop of the main thread takes the oldest
\* posted call and runs its slot, onLine or onStatus (lines 3352-3355)
GuiDeliver ==
    /\ gui.pc = "exec"
    /\ ~Inside(gui, "main")
    /\ gui.queue # <<>>
    /\ LET e == Head(gui.queue)
           g1 == [gui EXCEPT !.queue = Tail(@)]
       IN gui' = IF e.slot = "onLine" THEN Enter(g1, "main", "serial", e.arg) ELSE g1
    /\ UNCHANGED <<store, lastCall, nCalls, script, series, stats, parser, elf, cli, layout, clock, monitor, server, rack>>

\* qtStop, lines 3380-3397, and the return of app.exec(): the worker is told
\* to stop and the calls still posted are never run
GuiQuit ==
    /\ gui.pc = "exec"
    /\ ~Inside(gui, "main")
    /\ gui' = [gui EXCEPT !.pc = "returned",
                          !.stopEvent = IF gui.serial THEN TRUE ELSE @]
    /\ UNCHANGED <<store, lastCall, nCalls, script, series, stats, parser, elf, cli, layout, clock, monitor, server, rack>>

\* SerialWorker.run, lines 957-974: one attempt to open the port, or the end
\* of the attempts
GuiWorkerOpen ==
    /\ gui.worker = "open"
    /\ ~Inside(gui, "worker")
    /\ IF gui.stopEvent
       THEN gui' = [Emit(gui, "onStatus", "unavailable") EXCEPT !.worker = "finished"]
       ELSE \/ gui' = [Emit(gui, "onStatus", "opened") EXCEPT
                          !.attempt = @ + 1, !.ser = "open", !.worker = "read"]
            \/ /\ gui.attempt < MaxAttempts
               /\ gui' = [Emit(gui, "onStatus", "failed") EXCEPT !.attempt = @ + 1]
    /\ UNCHANGED <<store, lastCall, nCalls, script, series, stats, parser, elf, cli, layout, clock, monitor, server, rack>>

\* (mutant) a read without timeout: the worker stays in the read when the
\* stop event is set
GuiWorkerRead_Blocking ==
    /\ gui.worker = "read"
    /\ ~Inside(gui, "worker")
    /\ IF gui.stopEvent
       THEN gui' = gui
       ELSE \/ \E n \in 0..MaxChunk :
                  /\ gui.rd + n <= Len(gui.port)
                  /\ LET buf == gui.buf \o SubSeq(gui.port, gui.rd + 1, gui.rd + n)
                     IN gui' = [gui EXCEPT !.rd = @ + n, !.buf = buf,
                                           !.worker = IF HasLF(buf) THEN "split" ELSE "read"]
            \/ gui' = [Emit(gui, "onStatus", "read error") EXCEPT !.worker = "close"]
    /\ UNCHANGED <<store, lastCall, nCalls, script, series, stats, parser, elf, cli, layout, clock, monitor, server, rack>>

\* lines 977-981 and 988-991: one read of the port, which times out, returns
\* bytes or raises
GuiWorkerRead ==
    /\ gui.worker = "read"
    /\ ~Inside(gui, "worker")
    /\ IF gui.stopEvent
       THEN gui' = [gui EXCEPT !.worker = "close"]
       ELSE \/ \E n \in 0..MaxChunk :
                  /\ gui.rd + n <= Len(gui.port)
                  /\ LET buf == gui.buf \o SubSeq(gui.port, gui.rd + 1, gui.rd + n)
                     IN gui' = [gui EXCEPT !.rd = @ + n, !.buf = buf,
                                           !.worker = IF HasLF(buf) THEN "split" ELSE "read"]
            \/ gui' = [Emit(gui, "onStatus", "read error") EXCEPT !.worker = "close"]
    /\ UNCHANGED <<store, lastCall, nCalls, script, series, stats, parser, elf, cli, layout, clock, monitor, server, rack>>

\* lines 982-987: one pass of the inner loop, which takes the first line out
\* of the buffer and emits it unless it is empty
GuiWorkerLine ==
    /\ gui.worker = "split"
    /\ ~Inside(gui, "worker")
    /\ LET p == Partition(gui.buf)
           line == RStripChar(p.raw, CR)
           g1 == [gui EXCEPT !.buf = p.rest,
                             !.worker = IF HasLF(p.rest) THEN "split" ELSE "read"]
       IN gui' = IF line # ""
                 THEN [Emit(g1, "onLine", line) EXCEPT !.emitted = Append(@, line)]
                 ELSE g1
    /\ UNCHANGED <<store, lastCall, nCalls, script, series, stats, parser, elf, cli, layout, clock, monitor, server, rack>>

\* lines 993-998: the port is closed and the worker ends
GuiWorkerClose ==
    /\ gui.worker = "close"
    /\ ~Inside(gui, "worker")
    /\ gui' = [Emit(gui, "onStatus", "closed") EXCEPT !.ser = "closed",
                                                      !.worker = "finished"]
    /\ UNCHANGED <<store, lastCall, nCalls, script, series, stats, parser, elf, cli, layout, clock, monitor, server, rack>>

NextGui ==
    \/ GuiStart
    \/ GuiReplay
    \/ GuiOnLine
    \/ GuiDeliver
    \/ GuiQuit
    \/ GuiWorkerOpen
    \/ GuiWorkerRead
    \/ GuiWorkerLine
    \/ GuiWorkerClose

SpecGui == InitGui /\ [][NextGui]_vars

\* --------------------------------------------------------------- SpecClock
\* runs of switch events of both kinds with any timestamps, which record
\* whether the timestamps went back
ClockKvInputs == {kv \in CompleteTraceKv : kv.ev # "tick" /\ kv.reason = None}

ClockTraceKv ==
    /\ nCalls < MaxClockCalls
    /\ \E kv \in ClockKvInputs :
        /\ store' = TraceKvApply(store, kv)
        /\ lastCall' = Call("applyTraceKv", kv, None, None, FALSE, {}, Before(store))
        /\ clock' = IF FloatRaises(kv.ts_us) THEN clock ELSE Tick(clock, "target", kv.ts_us)
    /\ nCalls' = nCalls + 1
    /\ UNCHANGED <<script, series, stats, parser, elf, cli, layout, gui, monitor, server, rack>>

ClockTraceText ==
    /\ nCalls < MaxClockCalls
    /\ \E kv \in CompleteTraceText, nowEpoch \in FiniteTimes :
        /\ store' = TraceTextSwitchApply(store, kv, nowEpoch)
        /\ lastCall' = Call("applyTraceTextSwitch", kv, nowEpoch, None, FALSE, {},
                            Before(store))
        /\ clock' = Tick(clock, "host", nowEpoch)
    /\ nCalls' = nCalls + 1
    /\ UNCHANGED <<script, series, stats, parser, elf, cli, layout, gui, monitor, server, rack>>

NextClock ==
    \/ ClockTraceKv
    \/ ClockTraceText

SpecClock == Init /\ [][NextClock]_vars

\* -------------------------------------------------------------- SpecArrays
\* a TimeSeries of small capacity under any calls of append, clear and
\* toNumpyArrays; script holds the calls made so far, oldest first
ArraysAppend ==
    /\ nCalls < MaxArrayCalls
    /\ \E sample \in SeriesSamples :
        /\ series' = TimeSeriesAppend(series, sample[1], sample[2])
        /\ script' = Append(script, IF series'.version # series.version
                                    THEN "append" ELSE "rejected")
        /\ lastCall' = Call("TimeSeries.append", NoKv, sample[1], None, FALSE, {},
                            Before(store))
    /\ nCalls' = nCalls + 1
    /\ UNCHANGED <<store, stats, parser, elf, cli, layout, gui, clock, monitor, server, rack>>

ArraysClear ==
    /\ nCalls < MaxArrayCalls
    /\ series' = TimeSeriesClear(series)
    /\ script' = Append(script, "clear")
    /\ lastCall' = Call("TimeSeries.clear", NoKv, None, None, FALSE, {}, Before(store))
    /\ nCalls' = nCalls + 1
    /\ UNCHANGED <<store, stats, parser, elf, cli, layout, gui, clock, monitor, server, rack>>

ArraysToNumpy ==
    /\ nCalls < MaxArrayCalls
    /\ LET r == ToNumpyArrays(series)
       IN /\ series' = r.series
          /\ script' = Append(script, IF r.cached THEN "cached" ELSE "built")
          /\ lastCall' = Call("TimeSeries.toNumpyArrays", NoKv, None, None, FALSE,
                              <<r.xs, r.ys>>, Before(store))
    /\ nCalls' = nCalls + 1
    /\ UNCHANGED <<store, stats, parser, elf, cli, layout, gui, clock, monitor, server, rack>>

InitArrays ==
    /\ StoreInit
    /\ script = <<>>
    /\ series \in {TimeSeries(n) : n \in 1..MaxCap}
    /\ stats = RunningStats
    /\ parser = CpuStatsBlockParser
    /\ rack = RackInit
    /\ server = ServerInit
    /\ monitor = MonitorState
    /\ clock = ClockInit
    /\ gui = GuiRun
    /\ layout = LayoutRun
    /\ cli = CliRun
    /\ elf = ElfAnalysis

NextArrays ==
    \/ ArraysAppend
    \/ ArraysClear
    \/ ArraysToNumpy

SpecArrays == InitArrays /\ [][NextArrays]_vars

\* -------------------------------------------------------------- SpecCycles
\* _getInstructionCycles on the mnemonics of the table, on each of them with
\* a condition-code suffix, and on mnemonics outside the table
TableMnemonics == DOMAIN _ARM_INSTRUCTION_CYCLES \ {"_default"}

OtherMnemonics == {"svc", "wfi", "dmb", "it", "mrs", "uxtb", "vmov"}

Mnemonics ==
    TableMnemonics
    \cup {mn \o suffix : mn \in TableMnemonics, suffix \in ConditionSuffixes}
    \cup OtherMnemonics

CyclesLookup ==
    /\ nCalls = 0
    /\ \E mnemonic \in Mnemonics :
        lastCall' = Call("_getInstructionCycles", NoKv, None, None, FALSE,
                         [mnemonic |-> mnemonic,
                          cycles |-> _getInstructionCycles(mnemonic)],
                         Before(store))
    /\ nCalls' = nCalls + 1
    /\ UNCHANGED <<store, script, units>>

InitCycles == Init

NextCycles == CyclesLookup

SpecCycles == InitCycles /\ [][NextCycles]_vars

\* ------------------------------------------------------------- SpecMonitor
\* MonitorKV events in which at most one heap field and at most one stack
\* field is absent, unparsable or infinite and the others are numbers, with
\* and without a task; the host clock advances by one per call
MonitorBad == {None, BadNum, PInf}

HeapInputs ==
    {[heap_free |-> Fin(1), heap_min |-> Fin(2)]}
    \cup {[heap_free |-> r, heap_min |-> Fin(2)] : r \in MonitorBad}
    \cup {[heap_free |-> Fin(1), heap_min |-> r] : r \in MonitorBad}

StackNumbers ==
    [stack_total |-> Fin(2), stack_free |-> Fin(1), stack_used |-> Fin(1),
     stack_usage_pct |-> Fin(1)]

StackInputs ==
    {StackNumbers, [StackNumbers EXCEPT !.stack_total = None],
     [StackNumbers EXCEPT !.stack_free = BadNum],
     [StackNumbers EXCEPT !.stack_used = PInf],
     [StackNumbers EXCEPT !.stack_usage_pct = BadNum]}

MonitorKvInputs ==
    {[heap_free |-> h.heap_free, heap_min |-> h.heap_min, task |-> t,
      stack_total |-> s.stack_total, stack_free |-> s.stack_free,
      stack_used |-> s.stack_used, stack_usage_pct |-> s.stack_usage_pct] :
        h \in HeapInputs, t \in {NoneStr, "A", "B"}, s \in StackInputs}

ApplyMonitorKv ==
    /\ nCalls < MaxMonitorCalls
    /\ \E kv \in MonitorKvInputs :
        /\ monitor' = MonitorKvApply(monitor, kv, Fin(nCalls))
        /\ lastCall' = Call("applyMonitorKv", kv, Fin(nCalls), None, FALSE, {},
                            Before(store))
    /\ nCalls' = nCalls + 1
    /\ UNCHANGED <<store, script, series, stats, parser, elf, cli, layout, gui, clock, server, rack>>

NextMonitor == ApplyMonitorKv

SpecMonitor == Init /\ [][NextMonitor]_vars

\* the runs of _runGui with a serial port and no log file to replay
InitGuiSerial == InitGui /\ gui.serial /\ gui.log = <<>>

\* the worker thread keeps running: a failed open sleeps one second (line 972)
\* and a read returns after 0.2 s at the latest (timeout=0.2, line 962), so
\* each of its steps that stays enabled is taken
SpecGuiLive ==
    /\ InitGuiSerial
    /\ [][NextGui]_vars
    /\ WF_vars(GuiWorkerOpen)
    /\ WF_vars(GuiWorkerRead)
    /\ WF_vars(GuiWorkerLine)
    /\ WF_vars(GuiWorkerClose)

\* -------------------------------------------------------------- SpecServer
\* handle_start, app.py lines 284-294: unless running is set, it is set and a
\* new thread is started
HandleStart ==
    /\ server' = IF ~server.running
                 THEN [server EXCEPT !.running = TRUE, !.workers = Append(@, "test")]
                 ELSE server
    /\ ~server.running => Len(server.workers) < MaxThreads
    /\ UNCHANGED <<store, lastCall, nCalls, script, series, stats, parser, elf, cli, layout, gui, clock, monitor, rack>>

\* handle_stop, app.py lines 297-304
HandleStop ==
    /\ server' = [server EXCEPT !.running = FALSE]
    /\ UNCHANGED <<store, lastCall, nCalls, script, series, stats, parser, elf, cli, layout, gui, clock, monitor, rack>>

\* background_processing, app.py line 97: the test of the loop
WorkerTest ==
    /\ \E w \in 1..Len(server.workers) :
          /\ server.workers[w] = "test"
          /\ server' = [server EXCEPT
                           !.workers[w] = IF server.running THEN "body" ELSE "ended"]
    /\ UNCHANGED <<store, lastCall, nCalls, script, series, stats, parser, elf, cli, layout, gui, clock, monitor, rack>>

\* app.py lines 98-186: one iteration generates a point, then sleeps
WorkerIteration ==
    /\ server.total_samples < MaxSamples
    /\ \E w \in 1..Len(server.workers) :
          /\ server.workers[w] = "body"
          /\ server' = [server EXCEPT !.workers[w] = "sleep", !.total_samples = @ + 1]
    /\ UNCHANGED <<store, lastCall, nCalls, script, series, stats, parser, elf, cli, layout, gui, clock, monitor, rack>>

\* app.py lines 186 and 192: time.sleep returns
WorkerWake ==
    /\ \E w \in 1..Len(server.workers) :
          /\ server.workers[w] = "sleep"
          /\ server' = [server EXCEPT !.workers[w] = "test"]
    /\ UNCHANGED <<store, lastCall, nCalls, script, series, stats, parser, elf, cli, layout, gui, clock, monitor, rack>>

NextServer ==
    \/ HandleStart
    \/ HandleStop
    \/ WorkerTest
    \/ WorkerIteration
    \/ WorkerWake

SpecServer == Init /\ [][NextServer]_vars

\* ---------------------------------------------------------------- SpecRack
InitRack ==
    /\ StoreInit
    /\ script = <<>>
    /\ series = TimeSeries(1)
    /\ stats = RunningStats
    /\ parser = CpuStatsBlockParser
    /\ server = ServerInit
    /\ monitor = MonitorState
    /\ clock = ClockInit
    /\ gui = GuiRun
    /\ layout = LayoutRun
    /\ cli = CliRun
    /\ elf = ElfAnalysis
    /\ \E status \in {0, 1}, interval \in DoorIntervals :
          rack = RackSimulator(status, 0, interval)

\* time passes between two passes of run()
RackTick ==
    /\ rack.now < MaxNow
    /\ rack' = [rack EXCEPT !.now = @ + 1]
    /\ UNCHANGED <<store, lastCall, nCalls, script, series, stats, parser, elf, cli, layout, gui, clock, monitor, server>>

\* run(), lines 215-217: a door command that was enqueued is handled
RackDoorCommand ==
    /\ \E payload \in {"0", "1", "2", "x"}, duration \in DoorDurations,
          interval \in DoorIntervals :
          rack' = HandleDoorCommand(rack, payload, duration, interval)
    /\ UNCHANGED <<store, lastCall, nCalls, script, series, stats, parser, elf, cli, layout, gui, clock, monitor, server>>

\* run(), line 219: with no command waiting the door schedule is processed
RackDoorSchedule ==
    /\ \E duration \in DoorDurations, interval \in DoorIntervals :
          rack' = ProcessDoorSchedule(rack, duration, interval)
    /\ UNCHANGED <<store, lastCall, nCalls, script, series, stats, parser, elf, cli, layout, gui, clock, monitor, server>>

NextRack ==
    \/ RackTick
    \/ RackDoorCommand
    \/ RackDoorSchedule

SpecRack == InitRack /\ [][NextRack]_vars

\* ================================================================== claims
AllSegments(st) ==
    UNION {{st.scheduling[task][i] : i \in 1..Len(st.scheduling[task])} :
           task \in DOMAIN st.scheduling}

TraceKvComplete(kv) ==
    ~(MissingStr(kv.ev) \/ MissingStr(kv.task) \/ Missing(kv.ts_us))

TraceTextComplete(kv) == ~(MissingStr(kv.from) \/ MissingStr(kv.to))

WcetKvComplete(kv) ==
    ~(MissingStr(kv.name) \/ MissingStr(kv.task) \/ Missing(kv.dur_us))

PendingOf(st) ==
    <<st.trace.pendingSwitchOutTask, st.trace.pendingSwitchOutReason,
      st.trace.pendingSwitchOutWaitTicks, st.trace.pendingSwitchOutRelSec>>

NoPending == <<NoneStr, None, None, None>>

\* ---- C1
\* the script is switch_in(A, t0), switch_out(A, t1, r, w), switch_in(B, t1)
\* with t1 > t0 and r, w integers
IsSwitchScript ==
    /\ \A i \in 1..3 : script[i].op = "applyTraceKv"
    /\ script[1].kv.ev = "switch_in"
    /\ script[2].kv.ev = "switch_out"
    /\ script[2].kv.task = script[1].kv.task
    /\ FGt(script[2].kv.ts_us, script[1].kv.ts_us)
    /\ script[2].kv.reason # None
    /\ script[3].kv.ev = "switch_in"
    /\ script[3].kv.ts_us = script[2].kv.ts_us

\* C1: from an empty store, switch_in(A, t0), switch_out(A, t1, r, w),
\* switch_in(B, t1) with t1 > t0 leave exactly one segment, A's, of length
\* t1 - t0, and exactly one edge, A -> B, with count 1, reason r, wait ticks w.
C1_SwitchScriptOneSegmentOneEdge ==
    (Len(script) = 3 /\ nCalls = 3 /\ IsSwitchScript) =>
        LET a == script[1].kv.task
            b == script[3].kv.task
            len == FSub(script[2].kv.ts_us, script[1].kv.ts_us)
        IN /\ DOMAIN store.scheduling = {a}
           /\ Len(store.scheduling[a]) = 1
           /\ FSub(store.scheduling[a][1][2], store.scheduling[a][1][1]) = len
           /\ DOMAIN store.traceEdges = {<<a, b>>}
           /\ store.traceEdges[<<a, b>>].count = 1
           /\ store.traceEdges[<<a, b>>].lastReason = script[2].kv.reason
           /\ store.traceEdges[<<a, b>>].lastWaitTicks = script[2].kv.wait_ticks

C1_Witness ==
    /\ Len(script) = 3 /\ nCalls = 3 /\ IsSwitchScript
    /\ script[1].kv.task = "A" /\ script[3].kv.task = "B"
    /\ script[1].kv.ts_us = Fin(0)
    /\ script[2].kv.reason = Fin(2) /\ script[2].kv.wait_ticks = Fin(5)
    /\ store.trace.currentTask = "B"

\* ---- C2
\* C2 (as claimed): a textual switch event with from and to, applied when
\* target-clock events have recorded segments and edges, leaves no segment and
\* no edge recorded before it.
C2_TextSwitchClearsTargetState ==
    [][(/\ lastCall'.op = "applyTraceTextSwitch"
        /\ TraceTextComplete(lastCall'.kv)
        /\ store.trace.timeBase = "target"
        /\ store.scheduling # EmptyMap
        /\ store.traceEdges # EmptyMap
        /\ \A seg \in AllSegments(store) : IsFinite(seg[1]) /\ IsFinite(seg[2]))
       => (/\ store'.scheduling = EmptyMap
           /\ \A e \in DOMAIN store'.traceEdges :
                 /\ e = <<lastCall'.kv.from, lastCall'.kv.to>>
                 /\ store'.traceEdges[e].count = 1)]_vars

\* ---- C3
\* C3: a TraceKV event with ev, task and ts_us applied under the host time
\* base leaves nothing recorded under the host clock: no segment, no edge, no
\* pending switch-out, no host origin; the time base is target, and the
\* running task and the target origin are those the event itself sets.
C3_TraceKvWipesHostState ==
    [][(/\ lastCall'.op = "applyTraceKv"
        /\ TraceKvComplete(lastCall'.kv)
        /\ store.trace.timeBase = "host")
       => (/\ store'.scheduling = EmptyMap
           /\ store'.traceEdges = EmptyMap
           /\ PendingOf(store') = NoPending
           /\ store'.trace.startHostSec = None
           /\ store'.trace.timeBase = "target"
           /\ store'.trace.startTargetSec \in {None, lastCall'.kv.ts_us}
           /\ store'.trace.currentTask \in {NoneStr, lastCall'.kv.task}
           /\ (store'.trace.currentTask = NoneStr
                 <=> store'.trace.currentStartRelSec = None)
           /\ (store'.trace.currentTask # NoneStr
                 => lastCall'.kv.ev = "switch_in"))]_vars

C3_Witness ==
    /\ lastCall.op = "applyTraceKv"
    /\ TraceKvComplete(lastCall.kv)
    /\ lastCall.before.timeBase = "host"
    /\ lastCall.before.hasSegments
    /\ lastCall.before.hasEdges
    /\ store.trace.timeBase = "target"
    /\ store.traceEdges = EmptyMap

\* ---- C4
\* C4 (as claimed): a switch_out naming a task that is not the running task
\* changes no segment, pending switch-out, edge, running task or start time.
C4_StaleSwitchOutChangesNothing ==
    [][(/\ lastCall'.op = "applyTraceKv"
        /\ lastCall'.kv.ev = "switch_out"
        /\ lastCall'.kv.task # NoneStr
        /\ lastCall'.kv.task # store.trace.currentTask)
       => (/\ store'.scheduling = store.scheduling
           /\ store'.traceEdges = store.traceEdges
           /\ PendingOf(store') = PendingOf(store)
           /\ store'.trace.currentTask = store.trace.currentTask
           /\ store'.trace.currentStartRelSec = store.trace.currentStartRelSec)]_vars

\* C4 (amended): the same, when the time base is not host.
C4_StaleSwitchOutChangesNothingUnlessHost ==
    [][(/\ lastCall'.op = "applyTraceKv"
        /\ lastCall'.kv.ev = "switch_out"
        /\ lastCall'.kv.task # NoneStr
        /\ lastCall'.kv.task # store.trace.currentTask
        /\ store.trace.timeBase # "host")
       => (/\ store'.scheduling = store.scheduling
           /\ store'.traceEdges = store.traceEdges
           /\ PendingOf(store') = PendingOf(store)
           /\ store'.trace.currentTask = store.trace.currentTask
           /\ store'.trace.currentStartRelSec = store.trace.currentStartRelSec)]_vars

C4_Witness ==
    /\ lastCall.op = "applyTraceKv"
    /\ lastCall.kv.ev = "switch_out"
    /\ IsFinite(lastCall.kv.ts_us)
    /\ lastCall.before.timeBase = "target"
    /\ lastCall.before.hasSegments
    /\ store.trace.currentTask # NoneStr
    /\ lastCall.kv.task # store.trace.currentTask
    /\ FGt(store.trace.lastRelSec, store.trace.currentStartRelSec)

\* ---- C5
\* C5 (as claimed): every stored segment (start, end) has 0 <= start < end.
C5_SegmentsPositiveLength ==
    \A seg \in AllSegments(store) : FLe(Fin(0), seg[1]) /\ FLt(seg[1], seg[2])

\* ---- C6
\* C6 (as claimed): an event that lacks a required key leaves every field of
\* the store as it was.
C6_IncompleteEventNoEffect ==
    [][(\/ lastCall'.op = "applyTraceKv" /\ ~TraceKvComplete(lastCall'.kv)
        \/ lastCall'.op = "applyTraceTextSwitch" /\ ~TraceTextComplete(lastCall'.kv)
        \/ lastCall'.op = "applyWcetKv" /\ ~WcetKvComplete(lastCall'.kv))
       => store' = store]_vars

\* ---- C7
\* C7 (as claimed): no Aggregator call raises an exception to its caller.
C7_NoCallRaises == ~lastCall.raised

\* ---- C8
\* the length of the overlap of one segment with [windowStart, nowRel)
OverlapLen(seg, windowStart, nowRel) ==
    LET s == PyMax(seg[1], windowStart)
        e == PyMin(seg[2], nowRel)
    IN IF FGt(e, s) THEN FSub(e, s) ELSE Fin(0)

RECURSIVE FullOverlap(_, _, _, _)
FullOverlap(segs, i, windowStart, nowRel) ==
    IF i = 0 THEN Fin(0)
    ELSE FAdd(FullOverlap(segs, i - 1, windowStart, nowRel),
              OverlapLen(segs[i], windowStart, nowRel))

\* C8 (as claimed): for every window above 0.1 s, the run time the newest-first
\* scan gives a task is the sum over all its segments of the overlap with
\* [now - window, now).
C8_ScanEqualsFullOverlap ==
    \A nowRel \in FiniteTimes, windowSeconds \in Windows, task \in DOMAIN store.scheduling :
        ~WindowTooShort(windowSeconds) =>
            TaskRunTime(store, task, FSub(nowRel, windowSeconds), nowRel)
              = FullOverlap(store.scheduling[task], Len(store.scheduling[task]),
                            FSub(nowRel, windowSeconds), nowRel)

\* ---- C9
RECURSIVE SumField(_, _)
SumField(rows, field) ==
    IF rows = {} THEN Fin(0)
    ELSE LET r == CHOOSE x \in rows : TRUE
         IN FAdd(r[field], SumField(rows \ {r}, field))

\* C9 (as claimed): in a result of _cpuWindowFromTrace every listed task has
\* run time > 0, its percentage is its run time * 100 / the sum of the listed
\* run times, the percentages sum to 100, and a task is listed exactly when
\* its run time in the window is > 0 and the result is not empty.
C9_PercentagesSumTo100 ==
    lastCall.op = "_cpuWindowFromTrace" =>
        LET rows == lastCall.result
            windowStart == FSub(lastCall.now, lastCall.window)
        IN /\ \A r \in rows :
                /\ FGt(r.t, Fin(0))
                /\ r.pct = FDiv(FMul(r.t, Fin(100)), SumField(rows, "t"))
           /\ rows # {} => SumField(rows, "pct") = Fin(100)
           /\ rows # {} =>
                \A task \in DOMAIN store.scheduling :
                    (\E r \in rows : r.task = task)
                      <=> FGt(TaskRunTime(store, task, windowStart, lastCall.now), Fin(0))

\* ---- C10
\* the calls made so far are accepted WCET samples of one (name, task, isr)
WcetSamplesOfOneKey ==
    /\ nCalls >= 1
    /\ \A i \in 1..nCalls :
        /\ script[i].op = "applyWcetKv"
        /\ WcetAccepted(script[i].kv)
        /\ WcetKeyOf(script[i].kv) = WcetKeyOf(script[1].kv)

\* C10 (as claimed): after N accepted WCET samples of one (name, task, isr) the
\* store holds exactly one entry, for that key, with count N, min the smallest
\* and max the largest duration applied.
C10_WcetSamplesAccumulate ==
    WcetSamplesOfOneKey =>
        LET key == WcetKeyOf(script[1].kv)
            durs == {script[i].kv.dur_us : i \in 1..nCalls}
        IN /\ DOMAIN store.wcet = {key}
           /\ store.wcet[key].durUsStats.count = nCalls
           /\ store.wcet[key].durUsStats.minValue \in durs
           /\ store.wcet[key].durUsStats.maxValue \in durs
           /\ \A d \in durs :
                /\ FLe(store.wcet[key].durUsStats.minValue, d)
                /\ FLe(d, store.wcet[key].durUsStats.maxValue)
           /\ Len(store.wcet[key].durUsSamples) = nCalls

\* ---- C11
\* dur_us is present but float() rejects it, or it is not finite, or negative
WcetDurRejected(kv) ==
    /\ WcetKvComplete(kv)
    /\ FloatRaises(kv.dur_us) \/ ~IsFinite(kv.dur_us) \/ FLt(kv.dur_us, Fin(0))

\* C11: a WCET event whose dur_us is not numeric, not finite or negative
\* returns without raising and leaves the whole store as it was: no WcetKey
\* entry is created and no statistics, reservoir or series changes.
C11_WcetBadDurationRejected ==
    [][(lastCall'.op = "applyWcetKv" /\ WcetDurRejected(lastCall'.kv)) =>
          (/\ ~lastCall'.raised
           /\ store' = store
           /\ DOMAIN store'.wcet = DOMAIN store.wcet)]_vars

C11_Witness ==
    /\ lastCall.op = "applyWcetKv"
    /\ WcetDurRejected(lastCall.kv)
    /\ lastCall.kv.dur_us = Fin(-1)
    /\ lastCall.before.hasSegments
    /\ ~lastCall.raised

\* ---- C12
RECURSIVE FiniteSamples(_, _)
\* the samples among the first n of the script with finite ts and value
FiniteSamples(samples, n) ==
    IF n = 0 THEN <<>>
    ELSE LET rest == FiniteSamples(samples, n - 1)
         IN IF IsFinite(samples[n][1]) /\ IsFinite(samples[n][2])
            THEN Append(rest, samples[n]) ELSE rest

\* C12: the length of a series never exceeds its capacity N, and once more
\* than N finite samples were appended the points are the last N of them, in
\* insertion order (ts relative to the first finite sample's ts).
C12_SeriesKeepsLastN ==
    LET fin == FiniteSamples(script, nCalls)
        M == Len(fin)
        N == series.maxLen
    IN /\ Len(series.points) <= N
       /\ M > N =>
            series.points =
                [i \in 1..N |-> <<FSub(fin[M - N + i][1], fin[1][1]), fin[M - N + i][2]>>]

C12_Witness ==
    /\ series.maxLen = 2
    /\ nCalls = 4
    /\ Len(FiniteSamples(script, nCalls)) = 3
    /\ ~IsFinite(script[2][2])
    /\ series.points[1][2] # series.points[2][2]

\* ---- C13
RECURSIVE FiniteValues(_, _)
\* the finite values among the first n of the script
FiniteValues(samples, n) ==
    IF n = 0 THEN <<>>
    ELSE LET rest == FiniteValues(samples, n - 1)
         IN IF IsFinite(samples[n]) THEN Append(rest, samples[n]) ELSE rest

SeqRange(q) == {q[i] : i \in 1..Len(q)}

\* C13: count is the number of finite samples given, minValue and maxValue
\* are the smallest and the largest of them (unset exactly when count is 0),
\* and an update with a non-finite sample changes nothing.
C13_StatsCountMinMax ==
    /\ [](LET fin == FiniteValues(script, nCalls)
          IN /\ stats.count = Len(fin)
             /\ (stats.count = 0) <=> (stats.minValue = None)
             /\ (stats.count = 0) <=> (stats.maxValue = None)
             /\ stats.count > 0 =>
                    /\ stats.minValue \in SeqRange(fin)
                    /\ stats.maxValue \in SeqRange(fin)
                    /\ \A v \in SeqRange(fin) :
                          FLe(stats.minValue, v) /\ FLe(v, stats.maxValue))
    /\ [][(lastCall'.op = "RunningStats.update" /\ ~IsFinite(lastCall'.now)) =>
              stats' = stats]_vars

C13_Witness ==
    /\ lastCall.op = "RunningStats.update"
    /\ ~IsFinite(lastCall.now)
    /\ stats.count = 2
    /\ nCalls = 4
    /\ FLt(stats.minValue, stats.maxValue)

\* ---- C14
RECURSIVE SumOfKind(_, _, _)
\* the exact sum, as a rational, of the first n values of kind k ("fin": the
\* values themselves; "big": their ratios to the largest double)
SumOfKind(q, n, k) ==
    IF n = 0 THEN Fin(0)
    ELSE LET rest == SumOfKind(q, n - 1, k)
         IN IF q[n].k = k THEN Rat(rest.n * q[n].d + q[n].n * rest.d, rest.d * q[n].d)
            ELSE rest

\* the arithmetic mean of the finite values q, as the double nearest to it
ExactMean(q) ==
    LET N == Len(q)
        sb == SumOfKind(q, N, "big")
        sf == SumOfKind(q, N, "fin")
    IN IF sb.n # 0 THEN BigOf(sb.n, sb.d * N) ELSE Rat(sf.n, sf.d * N)

\* the part of kind k of q[i] - mean(q), as an exact rational
Deviation(q, i, k) ==
    LET N == Len(q)
        sum == SumOfKind(q, N, k)
        own == IF q[i].k = k THEN Rat(q[i].n, q[i].d) ELSE Fin(0)
    IN Rat(own.n * sum.d * N - sum.n * own.d, own.d * sum.d * N)

RECURSIVE SumSquaredDev(_, _)
SumSquaredDev(q, n) ==
    IF n = 0 THEN Fin(0)
    ELSE LET rest == SumSquaredDev(q, n - 1)
             dev == Deviation(q, n, "fin")
         IN Rat(rest.n * dev.d * dev.d + dev.n * dev.n * rest.d, rest.d * dev.d * dev.d)

\* the Bessel-corrected sample variance of the finite values q (Len(q) >= 2),
\* as a double: +inf when a squared deviation is beyond the largest double
SampleVariance(q) ==
    IF \E i \in 1..Len(q) : Deviation(q, i, "big").n # 0 THEN PInf
    ELSE LET ss == SumSquaredDev(q, Len(q))
         IN Rat(ss.n, ss.d * (Len(q) - 1))

\* C14 (as claimed): after N finite samples mean is their arithmetic mean and
\* variance() their sample variance; variance() is None below two samples.
C14_MeanAndVariance ==
    LET fin == FiniteValues(script, nCalls)
        N == Len(fin)
    IN /\ N >= 1 => stats.mean = ExactMean(fin)
       /\ N >= 2 => Variance(stats) = SampleVariance(fin)
       /\ N < 2 => Variance(stats) = None

\* ---- C15
RECURSIVE InsideAfter(_, _)
\* the most recent marker among the first n lines is a start-of-block marker
InsideAfter(lines, n) ==
    IF n = 0 THEN FALSE
    ELSE IF lines[n] \in CpuStartLines THEN TRUE
    ELSE IF lines[n] \in CpuEndLines THEN FALSE
    ELSE InsideAfter(lines, n - 1)

\* C15: feed returns rows only for a line that is no marker and is fed while
\* the most recent marker before it is a start marker; every other line
\* returns None, and the parser is inside exactly after a start marker that
\* no end marker followed (a repeated start marker keeps it inside).
C15_RowsOnlyInsideBlock ==
    nCalls >= 1 =>
        /\ ~lastCall.result.none =>
              /\ InsideAfter(script, nCalls - 1)
              /\ script[nCalls] \notin CpuStartLines \cup CpuEndLines
        /\ parser.inBlock = InsideAfter(script, nCalls)

C15_Witness ==
    /\ nCalls = 3
    /\ script[1] \in CpuStartLines
    /\ script[2] \in CpuStartLines
    /\ script[3] \in CpuRowLines
    /\ ~lastCall.result.none

\* ---- C16
\* C16 (as claimed): inside a block every line `<name> ... <p>%` returns the
\* one row (name, p), and `<name> ... <p%` the row (name, p/2), for every
\* task name.
C16_RowPerTableLine ==
    (nCalls >= 1 /\ InsideAfter(script, nCalls - 1)) =>
        \A tag \in LogTags, name \in {"Idle", "TaskA"} :
            /\ script[nCalls] = CpuRowLine(tag, name, "7%") =>
                  lastCall.result = FeedRows(<<<<name, Fin(7)>>>>)
            /\ script[nCalls] = CpuRowLine(tag, name, "<1%") =>
                  lastCall.result = FeedRows(<<<<name, Rat(1, 2)>>>>)

\* C17: parseLine on a line `[C] k1=v1 k2=v2` returns category C with the map
\* {k1: v1, k2: v2}, the last value winning when a key repeats; on a line with
\* no bracketed prefix it returns (None, {}) unless the line's first word is
\* one of the whitelisted categories.
RECURSIVE MapOfPairs(_)
MapOfPairs(pairs) ==
    IF pairs = <<>> THEN EmptyKv
    ELSE LET n == Len(pairs)
         IN Put(MapOfPairs(SubSeq(pairs, 1, n - 1)), pairs[n][1], pairs[n][2])

Parsed == lastCall.op = "parseLine"

LastInput == script[nCalls]

C17_CategoryAndMap ==
    Parsed /\ LastInput.tag = "" /\ LastInput.pairs # <<>> =>
        IF LastInput.bracket
        THEN lastCall.result = [prefix |-> LastInput.category,
                                kv |-> MapOfPairs(LastInput.pairs)]
        ELSE IF LastInput.category \in _KNOWN_PREFIXES
        THEN lastCall.result = [prefix |-> LastInput.category,
                                kv |-> MapOfPairs(LastInput.pairs)]
        ELSE lastCall.result = [prefix |-> NoneStr, kv |-> EmptyKv]

\* C18: `[TRACE] Task switched: A -> B` yields category TRACE with
\* {from: A, to: B}, and `[WCET] Task: X, WCET: Y us` yields category WCET
\* with {name: wcet, task: X, dur_us: Y, isr: 0}, whether or not a log-level
\* tag precedes the record.
SyntheticTransition == [prefix |-> "TRACE",
                        kv |-> [k \in {"from", "to"} |-> IF k = "from" THEN "A" ELSE "B"]]

SyntheticWcet ==
    [prefix |-> "WCET",
     kv |-> [k \in {"name", "task", "dur_us", "isr"} |->
                CASE k = "name" -> "wcet" [] k = "task" -> "X"
                  [] k = "dur_us" -> "12" [] k = "isr" -> "0"]]

C18_LegacyRecords ==
    Parsed /\ LastInput.bracket =>
        /\ LastInput.category = "TRACE" /\ LastInput.text = "Task switched: A -> B"
              => lastCall.result = SyntheticTransition
        /\ LastInput.category = "WCET" /\ LastInput.text = "Task: X, WCET: 12 us"
              => lastCall.result = SyntheticWcet

\* C19: for every function found in the disassembly, the reported McCabe
\* complexity is 1 plus the number of the function's instruction lines whose
\* mnemonic is a conditional-branch mnemonic, an instruction belonging to the
\* most recent function label above it.
LabelsAbove(i) == {j \in 1..(i - 1) : script[j].kind = "label"}

\* the function whose label is the most recent one above line i
OwnerOf(i) ==
    IF LabelsAbove(i) = {} THEN NoneStr
    ELSE script[CHOOSE j \in LabelsAbove(i) : \A k \in LabelsAbove(i) : k <= j].name

ConditionalBranchLines(name) ==
    {i \in 1..Len(script) :
        /\ script[i].kind = "ins"
        /\ decisionRe(BeforeDot(Lower(script[i].mn)))
        /\ OwnerOf(i) = name}

C19_McCabe ==
    elf.phase = "done" =>
        \A name \in DOMAIN elf.functions :
            elf.functions[name].mccabe = 1 + Cardinality(ConditionalBranchLines(name))

\* C20: a `bl`/`blx` to a named target inside function F yields exactly one
\* edge (F, target) in the edge list and one entry for the target in F's
\* callee list, however many times the call is repeated in F, and the
\* target's function record lists F among its callers.
CallLines == {i \in 1..Len(script) :
                 /\ script[i].kind = "ins" /\ script[i].mn \in {"bl", "blx"}
                 /\ OwnerOf(i) # NoneStr}

Occurrences(x, seq) == Cardinality({k \in 1..Len(seq) : seq[k] = x})

C20_OneEdgePerCall ==
    elf.phase = "done" =>
        \A i \in CallLines :
            LET F == OwnerOf(i)
                target == script[i].name
            IN /\ Occurrences(<<F, target>>, elf.edges) = 1
               /\ Occurrences(target, elf.functions[F].callees) = 1
               /\ target \in DOMAIN elf.functions
                     => InSeq(F, elf.functions[target].callers)

\* f calls g more than once and g is a function of the disassembly
C20_Witness ==
    /\ elf.phase = "done"
    /\ \E i, j \in CallLines :
          /\ i < j /\ OwnerOf(i) = "f" /\ OwnerOf(j) = "f"
          /\ script[i].name = "g" /\ script[j].name = "g"
    /\ "g" \in DOMAIN elf.functions
    /\ elf.edges = <<<<"f", "g">>>>
    /\ elf.functions["g"].callers = <<"f">>

\* C21: the max-call-depth computation terminates on every call graph, a
\* function that calls itself and any longer call cycle included, and returns
\* a depth that is at most the number of functions in the graph.
C21_DepthTerminates ==
    elf.phase # "graph" =>
        /\ elf.phase = "done"
        /\ elf.maxDepth \in 0..Cardinality(DOMAIN elf.functions)

\* C22: the static analyzer returns None, and the store keeps callGraph unset
\* and offlineAnalysisComplete false, when the binary path is missing or not
\* a file, when no disassembler is found, when the disassembler times out
\* and when it exits with a non-zero code
AnalysisFails ==
    \/ cli.elfPath # "file"
    \/ ~cli.objdump
    \/ cli.run \in {"timeout", "nonzero"}

C22_FailedAnalysisLeavesStoreUnset ==
    AnalysisFails =>
        /\ _analyzeElfComplete(cli.elfPath, cli.objdump, cli.run, cli.stdout) = NoGraph
        /\ cli.callGraph = NoGraph
        /\ ~cli.offlineAnalysisComplete

\* a run over a binary whose disassembler exited with a non-zero code after
\* printing a disassembly, past its analysis
C22_Witness ==
    /\ cli.elfPath = "file" /\ cli.objdump /\ cli.run = "nonzero"
    /\ cli.stdout # <<>>
    /\ cli.pc = "returned"
    /\ cli.callGraph = NoGraph

\* C23: once SIGINT or SIGTERM has set the stop flag the run of the CLI ends
\* with the serial port not open and the Markdown report written
C23_StopEndsRunWithReport ==
    cli.stop ~> (/\ cli.pc \in {"returned", "raised"}
                 /\ cli.ser # "open"
                 /\ cli.report)

\* C24: two invocations of the layout with the same nodes, edges and
\* iteration parameters return identical positions, whatever was drawn from
\* the generator and whatever layouts were computed in between, and each
\* returns one position per node
C24_LayoutDeterministic ==
    /\ layout.first.made => Len(layout.first.pos) = layout.first.input.n
    /\ layout.second.made =>
          /\ layout.second.pos = layout.first.pos
          /\ Len(layout.second.pos) = layout.second.input.n

\* a graph of three nodes laid out twice, the generator used in between
C24_Witness ==
    /\ layout.second.made
    /\ layout.second.disturbed
    /\ layout.second.input.n = MaxNodes
    /\ layout.second.input.iterations > 0
    /\ layout.second.input.edges # <<>>
    /\ layout.rng.drawn >= 2 * MaxNodes

\* the invocations on 2 nodes joined by 1 edge
TwoNodesOneEdge(inv) ==
    /\ inv.made
    /\ inv.input.n = 2
    /\ inv.input.edges \in {<<<<0, 1>>>>, <<<<1, 0>>>>}

\* C25: on 2 nodes joined by 1 edge the two positions returned are at a
\* strictly positive distance
C25_TwoNodesApart ==
    \A inv \in {layout.first, layout.second} :
        TwoNodesOneEdge(inv) =>
            Hypot(inv.pos[1][1] - inv.pos[2][1], inv.pos[1][2] - inv.pos[2][2]) > 0

\* the layout of the two nodes after every iteration of the bound, the nodes
\* having been pulled together
C25_Witness ==
    /\ TwoNodesOneEdge(layout.first)
    /\ layout.first.input.iterations = LayoutIter
    /\ layout.first.pos # LayoutOf([layout.first.input EXCEPT !.edges = <<>>],
                                   Generator(LayoutSeed)).pos

\* the relative time applyTraceKv gives an event: its ts_us minus the target
\* origin, which is the event's own ts_us when no origin is set or when the
\* host state is wiped first
TraceRelTs(st, kv) ==
    LET origin == IF st.trace.timeBase = "host" \/ st.trace.startTargetSec = None
                  THEN kv.ts_us ELSE st.trace.startTargetSec
    IN FSub(kv.ts_us, OrZero(origin))

\* the event has its keys and a number for ts_us, and is not before the origin
TraceKvAccepted(st, kv) ==
    /\ TraceKvComplete(kv)
    /\ ~FloatRaises(kv.ts_us)
    /\ ~FLt(TraceRelTs(st, kv), Fin(0))

\* what C26 says of a switch_in kv that takes the store from st to st2
SwitchInEffect(st, st2, kv) ==
    LET prev == st.trace.pendingSwitchOutTask
        key == <<prev, kv.task>>
    IN /\ IF prev # NoneStr
          THEN /\ DOMAIN st2.traceEdges = DOMAIN st.traceEdges \cup {key}
               /\ st2.traceEdges[key].count =
                      Lookup(st.traceEdges, key, TraceEdgeInfo).count + 1
               /\ st2.traceEdges[key].lastReason = st.trace.pendingSwitchOutReason
               /\ st2.traceEdges[key].lastWaitTicks = st.trace.pendingSwitchOutWaitTicks
               /\ \A e \in DOMAIN st.traceEdges \ {key} :
                      st2.traceEdges[e] = st.traceEdges[e]
               /\ PendingOf(st2) = NoPending
          ELSE st2.traceEdges = st.traceEdges
       /\ st2.trace.currentTask = kv.task
       /\ st2.trace.currentStartRelSec = TraceRelTs(st, kv)

\* ---- C26
\* C26 (as claimed): an accepted switch_in for task T with a switch-out of P
\* pending adds 1 to the count of edge (P, T), gives it the pending reason
\* and wait-ticks, changes no other edge and clears the pending switch-out;
\* with none pending it changes no edge; either way T is the running task
\* from the event's relative time.
C26_SwitchInCompletesEdge ==
    [][(/\ lastCall'.op = "applyTraceKv"
        /\ lastCall'.kv.ev = "switch_in"
        /\ TraceKvAccepted(store, lastCall'.kv))
       => SwitchInEffect(store, store', lastCall'.kv)]_vars

\* C26 (amended): the same, when the time base is not host.
C26_SwitchInCompletesEdgeUnlessHost ==
    [][(/\ lastCall'.op = "applyTraceKv"
        /\ lastCall'.kv.ev = "switch_in"
        /\ TraceKvAccepted(store, lastCall'.kv)
        /\ store.trace.timeBase # "host")
       => SwitchInEffect(store, store', lastCall'.kv)]_vars

\* a switch_in has completed an edge that carries a reason and wait-ticks
C26_Witness ==
    /\ lastCall.op = "applyTraceKv"
    /\ lastCall.kv.ev = "switch_in"
    /\ lastCall.before.timeBase = "target"
    /\ store.trace.currentTask = lastCall.kv.task
    /\ PendingOf(store) = NoPending
    /\ \E e \in DOMAIN store.traceEdges :
          /\ e[2] = lastCall.kv.task
          /\ store.traceEdges[e].count = 1
          /\ store.traceEdges[e].lastReason = Fin(2)
          /\ store.traceEdges[e].lastWaitTicks = Fin(5)
          /\ store.traceEdges[e].lastRelSec = store.trace.currentStartRelSec

\* the parts of the trace state the claims on dropped events name
Recorded(st) ==
    <<st.scheduling, st.traceEdges, st.trace.currentTask,
      st.trace.currentStartRelSec, PendingOf(st)>>

\* ---- C27
\* C27 (as claimed): a TraceKV event with ev, task and a ts_us that is not a
\* number changes no segment, edge, running task, pending switch-out or time
\* base, whatever the time base was.
C27_BadTimestampDropped ==
    [][(/\ lastCall'.op = "applyTraceKv"
        /\ TraceKvComplete(lastCall'.kv)
        /\ FloatRaises(lastCall'.kv.ts_us))
       => (/\ Recorded(store') = Recorded(store)
           /\ store'.trace.timeBase = store.trace.timeBase)]_vars

\* ---- C28
\* C28: the target origin is the ts_us of the first TraceKV event with a
\* number for ts_us, it does not change once set, and an event whose ts_us is
\* earlier than the origin changes no segment, edge, running task, pending
\* switch-out or lastRelSec.
C28_OriginFixedEarlierDropped ==
    [][lastCall'.op = "applyTraceKv" /\ TraceKvComplete(lastCall'.kv)
       => /\ store.trace.startTargetSec # None
             => store'.trace.startTargetSec = store.trace.startTargetSec
          /\ store.trace.startTargetSec = None
             => store'.trace.startTargetSec =
                    IF FloatRaises(lastCall'.kv.ts_us) THEN None
                    ELSE lastCall'.kv.ts_us
          /\ (/\ store.trace.startTargetSec # None
              /\ ~FloatRaises(lastCall'.kv.ts_us)
              /\ FLt(lastCall'.kv.ts_us, store.trace.startTargetSec))
             => (/\ Recorded(store') = Recorded(store)
                 /\ store'.trace.lastRelSec = store.trace.lastRelSec)]_vars

\* an event earlier than the origin was dropped, with a segment recorded and
\* a switch-out pending
C28_Witness ==
    /\ lastCall.op = "applyTraceKv"
    /\ IsFinite(lastCall.kv.ts_us)
    /\ IsFinite(store.trace.startTargetSec)
    /\ FLt(lastCall.kv.ts_us, store.trace.startTargetSec)
    /\ store.scheduling # EmptyMap
    /\ PendingOf(store) # NoPending
    /\ FGt(store.trace.lastRelSec, Fin(0))

\* the relative time applyTraceTextSwitch gives an event
TextRelTs(st, nowEpoch) ==
    FSub(nowEpoch, OrZero(IF st.trace.startHostSec = None THEN nowEpoch
                          ELSE st.trace.startHostSec))

\* what C29 says of a textual switch kv at nowEpoch that takes the store from
\* st to st2
TextSwitchEffect(st, st2, kv, nowEpoch) ==
    LET key == <<kv.from, kv.to>>
        relTs == TextRelTs(st, nowEpoch)
        start == st.trace.currentStartRelSec
    IN /\ key \in DOMAIN st2.traceEdges
       /\ st2.traceEdges[key].count = Lookup(st.traceEdges, key, TraceEdgeInfo).count + 1
       /\ st2.traceEdges[key].lastReason = None
       /\ st2.traceEdges[key].lastWaitTicks = None
       /\ st2.trace.currentTask = kv.to
       /\ st2.trace.currentStartRelSec = relTs
       /\ st2.scheduling =
              IF st.trace.currentTask = kv.from /\ start # None /\ FGt(relTs, start)
              THEN AppendSegment(st, kv.from, start, relTs).scheduling
              ELSE st.scheduling

\* ---- C29
\* C29 (as claimed): in the host time base a textual switch A -> B always
\* adds 1 to the count of edge (A, B), with reason and wait-ticks unset,
\* makes B the running task from the event's relative time, appends a
\* segment for A only when A was running and the time is after A's start,
\* and appends no segment for another task.
C29_TextSwitchInHostBase ==
    [][(/\ lastCall'.op = "applyTraceTextSwitch"
        /\ TraceTextComplete(lastCall'.kv)
        /\ store.trace.timeBase = "host")
       => TextSwitchEffect(store, store', lastCall'.kv, lastCall'.now)]_vars

\* C29 (amended): the same, when the host clock is not before the host origin.
C29_TextSwitchInHostBaseClockForward ==
    [][(/\ lastCall'.op = "applyTraceTextSwitch"
        /\ TraceTextComplete(lastCall'.kv)
        /\ store.trace.timeBase = "host"
        /\ ~FLt(TextRelTs(store, lastCall'.now), Fin(0)))
       => TextSwitchEffect(store, store', lastCall'.kv, lastCall'.now)]_vars

\* a textual switch in the host base has closed a segment of its `from` task
\* and counted its edge a second time
C29_Witness ==
    /\ lastCall.op = "applyTraceTextSwitch"
    /\ TraceTextComplete(lastCall.kv)
    /\ lastCall.before.timeBase = "host"
    /\ lastCall.before.hasEdges
    /\ store.trace.currentTask = lastCall.kv.to
    /\ lastCall.kv.from \in DOMAIN store.scheduling
    /\ store.scheduling[lastCall.kv.from] # <<>>
    /\ lastCall.kv.to \notin DOMAIN store.scheduling
    /\ store.traceEdges[<<lastCall.kv.from, lastCall.kv.to>>].count = 2


\* the complete lines among bytes, in order: each without its line end, the
\* empty ones left out
RECURSIVE LinesOf(_)
LinesOf(bytes) ==
    IF ~HasLF(bytes) THEN <<>>
    ELSE LET p == Partition(bytes)
             line == RStripChar(p.raw, CR)
         IN (IF line # "" THEN <<line>> ELSE <<>>) \o LinesOf(p.rest)

FromSerial(f) == f.src = "serial"
IsOnLine(e) == e.slot = "onLine"
FrameLines(frames) == [i \in 1..Len(frames) |-> frames[i].line]
PostedLines(queue) == [i \in 1..Len(queue) |-> queue[i].arg]

\* C30: in GUI mode only the main thread runs onLine and at most one
\* invocation of it is in progress; the worker has emitted exactly the
\* complete lines of the bytes it has taken out of its buffer, in order; and
\* the lines applied, the line being applied and the lines still posted are,
\* in this order, exactly the lines the worker emitted
C30_SingleMutatorInOrder ==
    /\ Len(gui.onLine) <= 1
    /\ \A i \in 1..Len(gui.onLine) : gui.onLine[i].thread = "main"
    /\ \A i \in 1..Len(gui.applied) : gui.applied[i].thread = "main"
    /\ gui.emitted = LinesOf(SubSeq(gui.port, 1, gui.rd - Len(gui.buf)))
    /\ FrameLines(SelectSeq(gui.applied, FromSerial))
         \o FrameLines(SelectSeq(gui.onLine, FromSerial))
         \o PostedLines(SelectSeq(gui.queue, IsOnLine))
       = gui.emitted

\* the worker read two different lines while the log file was replayed, and
\* both were applied after the line of the log file
C30_Witness ==
    /\ Len(gui.applied) = 3
    /\ gui.applied[1].src = "log"
    /\ gui.applied[2].src = "serial" /\ gui.applied[3].src = "serial"
    /\ gui.applied[2].line # gui.applied[3].line
    /\ gui.worker = "read"

\* C31: whenever a pending switch-out is recorded, no task is recorded as
\* running (currentTask and currentStartRelSec are unset) and the time base
\* is target
C31_PendingMeansIdleTarget ==
    store.trace.pendingSwitchOutTask # NoneStr =>
        /\ store.trace.currentTask = NoneStr
        /\ store.trace.currentStartRelSec = None
        /\ store.trace.timeBase = "target"

\* a switch-out is pending and the last call, a textual switch, met it
C31_Witness ==
    /\ store.trace.pendingSwitchOutTask # NoneStr
    /\ lastCall.op = "applyTraceTextSwitch"
    /\ TraceTextComplete(lastCall.kv)

\* the closed segments of every task, each with its task and its position
\* in the task's deque
AllClosed(st) ==
    UNION {{<<task, i, st.scheduling[task][i]>> : i \in 1..Len(st.scheduling[task])} :
           task \in DOMAIN st.scheduling}

\* two segments share an instant
Overlap(a, b) == FLt(a[1], b[2]) /\ FLt(b[1], a[2])

\* C32: while the timestamps of the applied trace events have never
\* decreased, no two closed segments, of two tasks or of one, share an
\* instant
C32_SegmentsDisjointIfMonotone ==
    clock.mono =>
        \A x \in AllClosed(store), y \in AllClosed(store) :
            x # y => ~Overlap(x[3], y[3])

\* timestamps that never decreased have left two closed segments under the
\* target time base
C32_Witness ==
    /\ clock.mono
    /\ store.trace.timeBase = "target"
    /\ Cardinality(AllClosed(store)) >= 2

\* the same under the host time base
C32_WitnessHost ==
    /\ clock.mono
    /\ store.trace.timeBase = "host"
    /\ Cardinality(AllClosed(store)) >= 2

\* the position of the last call in the log that built the arrays, 0 if none
LastBuilt(log) ==
    IF \E i \in 1..Len(log) : log[i] = "built"
    THEN CHOOSE i \in 1..Len(log) :
            log[i] = "built" /\ \A j \in (i + 1)..Len(log) : log[j] # "built"
    ELSE 0

\* C33: the arrays toNumpyArrays returns hold the current points in order,
\* and they are the cached ones only if an earlier call built them and no
\* accepted append and no clear was made since
C33_ArraysEqualPoints ==
    lastCall.op = "TimeSeries.toNumpyArrays" =>
        /\ lastCall.result = <<Xs(series.points), Ys(series.points)>>
        /\ script[Len(script)] = "cached" =>
              /\ LastBuilt(script) > 0
              /\ \A j \in (LastBuilt(script) + 1)..Len(script) :
                    script[j] \notin {"append", "clear"}

\* the cached arrays were returned after a rejected append, for a series
\* that had points
C33_Witness ==
    /\ lastCall.op = "TimeSeries.toNumpyArrays"
    /\ Len(script) >= 3
    /\ script[Len(script)] = "cached"
    /\ script[Len(script) - 1] = "rejected"
    /\ series.points # <<>>

\* the arrays were built again after an append that followed a build
C33_WitnessRebuilt ==
    /\ lastCall.op = "TimeSeries.toNumpyArrays"
    /\ Len(script) >= 3
    /\ script[Len(script)] = "built"
    /\ script[Len(script) - 1] = "append"
    /\ script[Len(script) - 2] = "built"

\* C34: a mnemonic of the cycle table is charged the table's value; a table
\* mnemonic followed by a condition-code suffix is charged the value of the
\* base mnemonic; every other mnemonic is charged the default of 2
C34_TableCostCharged ==
    lastCall.op = "_getInstructionCycles" =>
        LET mnemonic == lastCall.result.mnemonic
            cycles == lastCall.result.cycles
            n == Len(mnemonic)
        IN IF mnemonic \in TableMnemonics
           THEN cycles = _ARM_INSTRUCTION_CYCLES[mnemonic]
           ELSE IF n > 2 /\ SubSeq(mnemonic, 1, n - 2) \in TableMnemonics
                         /\ SubSeq(mnemonic, n - 1, n) \in ConditionSuffixes
           THEN cycles = _ARM_INSTRUCTION_CYCLES[SubSeq(mnemonic, 1, n - 2)]
           ELSE cycles = _ARM_INSTRUCTION_CYCLES["_default"]

\* the callees of name that are functions of the graph
DefinedCallees(functions, name) ==
    {functions[name].callees[i] : i \in 1..Len(functions[name].callees)}
        \cap DOMAIN functions

\* the functions reached from the set `from` by exactly `steps` calls
RECURSIVE ReachedIn(_, _, _)
ReachedIn(functions, from, steps) ==
    IF steps = 0 THEN from
    ELSE UNION {DefinedCallees(functions, n) : n \in ReachedIn(functions, from, steps - 1)}

\* no function reaches itself by one call or more
Acyclic(functions) ==
    \A n \in DOMAIN functions, steps \in 1..Cardinality(DOMAIN functions) :
        n \notin ReachedIn(functions, {n}, steps)

\* the call chains of the graph: sequences of functions of the graph, each
\* calling the next
CallChains(functions) ==
    UNION {{c \in [1..len -> DOMAIN functions] :
               \A i \in 1..(len - 1) : c[i + 1] \in DefinedCallees(functions, c[i])} :
           len \in 0..Cardinality(DOMAIN functions)}

LongestChain(functions) ==
    CHOOSE len \in 0..Cardinality(DOMAIN functions) :
        /\ \E c \in CallChains(functions) : Len(c) = len
        /\ \A c \in CallChains(functions) : Len(c) <= len

Orderings(functions) ==
    {o \in [1..Cardinality(DOMAIN functions) -> DOMAIN functions] :
        \A i, j \in DOMAIN o : i # j => o[i] # o[j]}

\* C36: the max depth returned for a graph of at most 500 functions, call
\* cycles included, is the same for every order of the functions: whenever
\* the computation returns for the order at hand and for another order of
\* the same functions, it returns the same value
C36_DepthOrderIndependent ==
    (elf.phase = "done" /\ Cardinality(DOMAIN elf.functions) <= DepthLimit) =>
        \A o \in Orderings(elf.functions) :
            LET r == _calculateCallgraphDepth(elf.functions, o)
            IN ~r.raised => r.depth = elf.maxDepth

HeapFields == {"heap_free", "heap_min"}
StackFields == {"stack_total", "stack_free", "stack_used", "stack_usage_pct"}

\* the running statistics a field of a MonitorKV event is applied to
FieldStats(mo, task, field) ==
    IF field = "heap_free" THEN mo.system.heapFreeStats
    ELSE IF field = "heap_min" THEN mo.system.heapMinStats
    ELSE LET tm == Lookup(mo.tasks, task, StackMetrics)
         IN IF field = "stack_total" THEN tm.stackTotalStats
            ELSE IF field = "stack_free" THEN tm.stackFreeStats
            ELSE IF field = "stack_used" THEN tm.stackUsedStats
            ELSE tm.stackUsagePctStats

\* present and a number: float() returns a finite value
Numeric(raw) == raw # None /\ raw # BadNum /\ IsFinite(raw)

C38_StopEndsWorker ==
    /\ gui.stopEvent ~> gui.worker = "finished"
    /\ [](gui.worker = "finished" => gui.ser # "open")
    /\ [][gui.worker = "finished" =>
            gui'.worker = "finished" /\ gui'.emitted = gui.emitted
            /\ gui'.ser = gui.ser]_vars

\* stop() came after lines had been read: run() has returned with the port
\* closed
C38_Witness ==
    /\ gui.stopEvent
    /\ gui.worker = "finished"
    /\ gui.ser = "closed"
    /\ gui.emitted # <<>>

\* stop() came while the worker was retrying to open the port: run() has
\* returned without a port
C38_WitnessRetrying ==
    /\ gui.stopEvent
    /\ gui.worker = "finished"
    /\ gui.ser = NoneStr
    /\ gui.attempt >= 1

\* C39: at most one background_processing thread is in an iteration of its
\* loop at any time, whatever the order of the start_processing and
\* stop_processing events and of the ends of the workers' sleeps
C39_AtMostOneWorker == Cardinality(Generating(server)) <= 1

\* C40: whenever the door of a rack is open (status 1) its closing deadline
\* door_open_until is set, from the construction of the simulator onwards
C40_OpenDoorHasDeadline == rack.status = 1 => rack.door_open_until.set

====
